---- MODULE Spec2Model ----
(***************************************************************************)
(* Model of the configuration-to-symbol resolution and dispatch layer of   *)
(* parasail-rs: the AlignerBuilder of src/aligner/mod.rs, the identifier   *)
(* it resolves, the symbol lookup made by build() and the two call shapes  *)
(* of Aligner; and of the values that own backend handles: the Matrix of   *)
(* src/matrix/mod.rs with the tables it points to, the Alignment of        *)
(* src/aligner/mod.rs with the result handle it wraps, and the Profile of  *)
(* src/profile/mod.rs together with the Arcs through which a builder and   *)
(* its Aligners hold a Matrix and a Profile.                               *)
(***************************************************************************)
EXTENDS Integers, Naturals, Sequences, FiniteSets, Bags, TLC

VARIABLES
    builder,              \* the AlignerBuilder under construction
    table_calls,          \* history: the return_table / return_last_rowcol
                          \* calls made on the builder, in call order
    last_instruction_set, \* history: the InstructionSet of the latest
                          \* instruction_set() call on the builder, "none" before
    ncalls,               \* history: number of setter calls made on the builder
    aligners,             \* the Aligner values alive
    ret,                  \* what the most recent call returned and did
    tables,               \* the matrix tables the backend allocated on the heap
    static_table,         \* the backend's static table of the built-in matrix
    matrices,             \* the Matrix values alive, by binding
    nedits,               \* history: number of set_value calls made
    mret,                 \* what the most recent Matrix call returned and did
    results,              \* the result handles the backend handed out
    alignments,           \* the Alignment values alive
    profiles,             \* the profile handles the backend handed out
    profile_values,       \* the Profile values alive, by binding
    matrix_arcs,          \* the Arc<Matrix> cells
    profile_arcs,         \* the Arc<Option<Profile>> cells
    owner_builder,        \* the AlignerBuilder, as the holder of two Arcs
    owner_aligners,       \* the Aligners alive, as holders of two Arcs: a bag
    shared,               \* history: the handles an Arc with several owners held
    profile_builder,      \* the ProfileBuilder under construction
    pret,                 \* what the most recent call on it returned
    lib_builder,          \* the AlignerBuilder of src/lib.rs under construction
    lib_calls,            \* history: the use_table, use_last_rowcol and
                          \* use_trace calls made on it, in call order
    lib_ret               \* the identifier get_parasail_fn_name last returned

\* the variables of the builder and dispatch layer
builder_vars == <<builder, table_calls, last_instruction_set, ncalls, aligners, ret>>

\* the variables of the Matrix layer
matrix_vars == <<tables, static_table, matrices, nedits, mret>>

\* the variables of the Alignment layer
result_vars == <<results, alignments>>

\* the variables of the Profile values and of the Arcs
owner_vars ==
    <<profiles, profile_values, matrix_arcs, profile_arcs, owner_builder,
      owner_aligners, shared>>

\* the variables of the ProfileBuilder
creator_vars == <<profile_builder, pret>>

\* the variables of the AlignerBuilder of src/lib.rs
lib_vars == <<lib_builder, lib_calls, lib_ret>>

\* the variables outside the builder and dispatch layer
resource_vars == <<matrix_vars, result_vars, owner_vars, creator_vars, lib_vars>>

vars == <<builder_vars, resource_vars>>

-----------------------------------------------------------------------------
(* Bounds *)

\* setter calls made on one builder
MaxSetterCalls == 4

\* setter calls made on one builder by a client that goes on to build Aligners
MaxCallsBeforeBuild == 2

\* Aligner values alive at the same time
MaxAligners == 2

\* matrix tables the backend allocates on the heap in one run
MaxTables == 2

\* set_value calls made in one run
MaxEdits == 2

\* result handles the backend hands out in one run, and Alignment values
\* alive at the same time
MaxResults == 2

\* profile handles the backend hands out
MaxProfiles == 1

\* length of the sequences a client aligns
MaxLen == 3

-----------------------------------------------------------------------------
(* Inputs *)

\* enum Gap
Gap == {"Prefix", "Suffix", "All"}

\* enum InstructionSet, as matched by AlignerBuilder::instruction_set
InstructionSet == {"SSE2", "SSE41", "AVX2", "AltiVec", "Neon"}

\* u8 arguments of solution_width: the four supported widths and one that is not
WidthInputs == {8, 16, 32, 64, 7}

\* u32: the value hi * 2^16 + lo, in two halves of 16 bits
U32(hi, lo) == [hi |-> hi, lo |-> lo]

\* u32 arguments of gap_open_penalty and gap_extend_penalty: 1, i32::MAX,
\* i32::MAX + 1 and u32::MAX
PenaltyInputs == {U32(0, 1), U32(32767, 65535), U32(32768, 0), U32(65535, 65535)}

\* `x as i32` for a u32 x: the same 32 bits read in two's complement
as_i32(x) ==
    IF x.hi >= 32768 THEN (x.hi - 65536) * 65536 + x.lo ELSE x.hi * 65536 + x.lo

\* Option<u8>
NoWidth == [some |-> FALSE, val |-> 0]
SomeWidth(w) == [some |-> TRUE, val |-> w]

\* Option<Profile>: a Profile carries the use_stats flag it was built with
NoProfile == [some |-> FALSE, use_stats |-> FALSE]
SomeProfile(s) == [some |-> TRUE, use_stats |-> s]

-----------------------------------------------------------------------------
(* AlignerBuilder *)

\* impl Default for AlignerBuilder
DefaultBuilder ==
    [ mode |-> "nw",
      solution_width |-> NoWidth,
      gap_open_penalty |-> U32(0, 0),
      gap_extend_penalty |-> U32(0, 0),
      profile |-> NoProfile,
      allow_query_gaps |-> "",
      allow_ref_gaps |-> "",
      vec_strategy |-> "",
      use_stats |-> "",
      use_table |-> "",
      use_trace |-> "",
      instruction_set |-> "" ]

\* ret after a call that returns &mut Self: no Result, no lookup, no backend call
NoRet ==
    [ op |-> "setter", kind |-> "none", fn_name |-> "", tokens |-> <<>>,
      width |-> 0, lookup |-> "none", symbol |-> "none", backend |-> "none",
      callee |-> "none", on_profile |-> FALSE, null_result |-> FALSE,
      open |-> 0, gap |-> 0, query |-> <<>>, reference |-> <<>> ]

\* AlignerBuilder::global
global(self) == [self EXCEPT !.mode = "nw"]

\* AlignerBuilder::semi_global
semi_global(self) == [self EXCEPT !.mode = "sg"]

\* AlignerBuilder::local
local(self) == [self EXCEPT !.mode = "sw"]

\* AlignerBuilder::allow_query_gaps
allow_query_gaps(self, gap) ==
    CASE gap = "Prefix" -> [self EXCEPT !.allow_query_gaps = "_qb"]
      [] gap = "Suffix" -> [self EXCEPT !.allow_query_gaps = "_qe"]
      [] gap = "All"    -> [self EXCEPT !.allow_query_gaps = "_qx"]

\* AlignerBuilder::allow_ref_gaps
allow_ref_gaps(self, gap) ==
    CASE gap = "Prefix" -> [self EXCEPT !.allow_ref_gaps = "_db"]
      [] gap = "Suffix" -> [self EXCEPT !.allow_ref_gaps = "_de"]
      [] gap = "All"    -> [self EXCEPT !.allow_ref_gaps = "_dx"]

\* AlignerBuilder::return_stats: sets the stats token, clears the trace token
return_stats(self) ==
    LET s1 == [self EXCEPT !.use_stats = "_stats"]
    IN  IF s1.use_trace # "" THEN [s1 EXCEPT !.use_trace = ""] ELSE s1

\* AlignerBuilder::enable_traceback: sets the trace token, clears the stats token
enable_traceback(self) ==
    LET s1 == [self EXCEPT !.use_trace = "_trace"]
    IN  IF s1.use_stats # "" THEN [s1 EXCEPT !.use_stats = ""] ELSE s1

\* return_table as it would be under a last-write-wins policy
return_table_last_write_wins(self) == [self EXCEPT !.use_table = "_table"]

\* AlignerBuilder::return_table: keeps "_rowcol" when it is already set
return_table(self) ==
    IF self.use_table = "_rowcol" THEN self
    ELSE [self EXCEPT !.use_table = "_table"]

\* AlignerBuilder::return_last_rowcol
return_last_rowcol(self) == [self EXCEPT !.use_table = "_rowcol"]

\* AlignerBuilder::scan
scan(self) == [self EXCEPT !.vec_strategy = "_scan"]

\* AlignerBuilder::striped
striped(self) == [self EXCEPT !.vec_strategy = "_striped"]

\* AlignerBuilder::diag
diag(self) == [self EXCEPT !.vec_strategy = "_diag"]

\* AlignerBuilder::gap_open_penalty and gap_extend_penalty
gap_open_penalty(self, penalty) == [self EXCEPT !.gap_open_penalty = penalty]
gap_extend_penalty(self, penalty) == [self EXCEPT !.gap_extend_penalty = penalty]

\* AlignerBuilder::solution_width: stores any u8, validates nothing
solution_width(self, width) == [self EXCEPT !.solution_width = SomeWidth(width)]

\* AlignerBuilder::instruction_set
instruction_set(self, is) ==
    CASE is = "SSE2"    -> [self EXCEPT !.instruction_set = "_sse2_128"]
      [] is = "SSE41"   -> [self EXCEPT !.instruction_set = "_sse41_128"]
      [] is = "AVX2"    -> [self EXCEPT !.instruction_set = "_avx2_256"]
      [] is = "AltiVec" -> [self EXCEPT !.instruction_set = "_altivec_128"]
      [] is = "Neon"    -> [self EXCEPT !.instruction_set = "_neon_128"]

\* AlignerBuilder::profile: raises the stats token when the profile has
\* use_stats, and leaves every other token as it is
profile(self, p) ==
    LET s1 == IF p.use_stats THEN [self EXCEPT !.use_stats = "_stats"] ELSE self
    IN  [s1 EXCEPT !.profile = p]

-----------------------------------------------------------------------------
(* AlignerBuilder of src/lib.rs *)

\* impl Default for AlignerBuilder: profile is Profile::default(), whose
\* handle is null
LibDefault ==
    [ mode |-> "nw",
      profile |-> [null |-> TRUE, use_stats |-> FALSE],
      allow_query_gaps |-> {},
      allow_ref_gaps |-> {},
      vec_strategy |-> "_striped",
      use_stats |-> "",
      use_table |-> "",
      use_trace |-> "" ]

\* AlignerBuilder::use_stats
lib_use_stats(self) ==
    LET s1 == [self EXCEPT !.use_stats = "_stats"]
    IN  IF s1.use_trace # "" THEN [s1 EXCEPT !.use_trace = ""] ELSE s1

\* AlignerBuilder::use_table
use_table(self) ==
    LET s1 == [self EXCEPT !.use_table = "_table"]
    IN  IF s1.use_trace # "" THEN [s1 EXCEPT !.use_trace = ""] ELSE s1

\* AlignerBuilder::use_last_rowcol
use_last_rowcol(self) == [self EXCEPT !.use_table = "_rowcol"]

\* AlignerBuilder::use_trace
use_trace(self) ==
    LET s1 == [self EXCEPT !.use_trace = "_trace"]
        s2 == IF s1.use_table # "" THEN [s1 EXCEPT !.use_table = ""] ELSE s1
    IN  IF s2.use_stats # "" THEN [s2 EXCEPT !.use_stats = ""] ELSE s2

\* AlignerBuilder::get_allowed_gaps, joined
get_allowed_gaps(prefix, allowed_gaps_vec) ==
    IF "prefix" \in allowed_gaps_vec /\ "suffix" \in allowed_gaps_vec
    THEN "_" \o prefix \o "x"
    ELSE IF "prefix" \in allowed_gaps_vec THEN "_" \o prefix \o "b"
    ELSE IF "suffix" \in allowed_gaps_vec THEN "_" \o prefix \o "e"
    ELSE ""

\* no identifier
NoName == [kind |-> "none", fn_name |-> "", tokens |-> <<>>]

\* the concatenation of the strings of a sequence
RECURSIVE Join(_)
Join(strings) ==
    IF strings = <<>> THEN "" ELSE Head(strings) \o Join(Tail(strings))

\* AlignerBuilder::get_parasail_fn_name of src/lib.rs: tokens are the
\* arguments of format!, in order
lib_get_parasail_fn_name(self) ==
    LET joined == get_allowed_gaps("q", self.allow_query_gaps)
                      \o get_allowed_gaps("d", self.allow_ref_gaps)
        sg_gaps_fn_part == IF self.mode = "sg" /\ joined # "_qx_dx" THEN joined
                           ELSE ""
        stats == IF self.profile.null THEN self.use_stats
                 ELSE IF self.profile.use_stats THEN "_stats" ELSE ""
        tokens == << self.mode, sg_gaps_fn_part, self.use_trace, stats,
                     self.use_table, self.vec_strategy,
                     IF self.profile.null THEN "" ELSE "_profile", "_sat" >>
    IN  IF /\ ~self.profile.null
           /\ self.vec_strategy # "_striped" /\ self.vec_strategy # "_scan"
        THEN [NoName EXCEPT !.kind = "panic"]
        ELSE [kind |-> "Ok", fn_name |-> Join(tokens), tokens |-> tokens]

-----------------------------------------------------------------------------
(* Symbol resolver *)

\* the widths get_vectorization_config accepts: Some(8 | 16 | 32 | 64)
ValidWidths == {8, 16, 32, 64}

\* get_vectorization_config formatting whatever width is stored, without the
\* catch-all match arm
get_vectorization_config_any_width(self) ==
    IF self.vec_strategy = ""
    THEN [ ok |-> TRUE, instruction_set |-> "", solution_width |-> "", width |-> 0 ]
    ELSE IF self.solution_width.some
    THEN [ ok |-> TRUE, instruction_set |-> self.instruction_set,
           solution_width |-> "_" \o ToString(self.solution_width.val), width |-> 0 ]
    ELSE [ ok |-> TRUE, instruction_set |-> self.instruction_set,
           solution_width |-> "_sat", width |-> 0 ]

\* get_vectorization_config without the strategy gate
get_vectorization_config_ungated(self) ==
    IF self.solution_width.some /\ self.solution_width.val \in ValidWidths
    THEN [ ok |-> TRUE, instruction_set |-> self.instruction_set,
           solution_width |-> "_" \o ToString(self.solution_width.val), width |-> 0 ]
    ELSE IF ~self.solution_width.some
    THEN [ ok |-> TRUE, instruction_set |-> self.instruction_set,
           solution_width |-> "_sat", width |-> 0 ]
    ELSE [ ok |-> FALSE, instruction_set |-> "", solution_width |-> "",
           width |-> self.solution_width.val ]

\* AlignerBuilder::get_vectorization_config: (instruction set, width) tokens,
\* or Err(InvalidSolutionWidth{width})
get_vectorization_config(self) ==
    IF self.vec_strategy = ""
    THEN [ ok |-> TRUE, instruction_set |-> "", solution_width |-> "", width |-> 0 ]
    ELSE IF self.solution_width.some /\ self.solution_width.val \in ValidWidths
    THEN [ ok |-> TRUE, instruction_set |-> self.instruction_set,
           solution_width |-> "_" \o ToString(self.solution_width.val), width |-> 0 ]
    ELSE IF ~self.solution_width.some
    THEN [ ok |-> TRUE, instruction_set |-> self.instruction_set,
           solution_width |-> "_sat", width |-> 0 ]
    ELSE [ ok |-> FALSE, instruction_set |-> "", solution_width |-> "",
           width |-> self.solution_width.val ]

\* the arguments of the format! call, in the order they are passed
format_args(self, vc) ==
    << self.mode,
       self.allow_query_gaps,
       self.allow_ref_gaps,
       self.use_stats,
       self.use_table,
       self.use_trace,
       self.vec_strategy,
       IF self.profile.some THEN "_profile" ELSE "",
       vc.instruction_set,
       vc.solution_width >>

\* format!("parasail_{}{}{}{}{}{}{}{}{}{}", ...)
format(args) ==
    "parasail_" \o args[1] \o args[2] \o args[3] \o args[4] \o args[5]
                \o args[6] \o args[7] \o args[8] \o args[9] \o args[10]

\* get_parasail_fn_name with the table and trace arguments exchanged
get_parasail_fn_name_swapped(self) ==
    LET vc == get_vectorization_config(self)
        a  == format_args(self, vc)
        b  == [a EXCEPT ![5] = a[6], ![6] = a[5]]
    IN  IF ~vc.ok
        THEN [ kind |-> "InvalidSolutionWidth", tokens |-> <<>>, fn_name |-> "",
               width |-> vc.width ]
        ELSE [ kind |-> "Ok", tokens |-> b, fn_name |-> format(b), width |-> 0 ]

\* AlignerBuilder::get_parasail_fn_name: Ok(identifier), or the error of
\* get_vectorization_config passed on by `?`
get_parasail_fn_name(self) ==
    LET vc == get_vectorization_config(self)
        a  == format_args(self, vc)
    IN  IF ~vc.ok
        THEN [ kind |-> "InvalidSolutionWidth", tokens |-> <<>>, fn_name |-> "",
               width |-> vc.width ]
        ELSE [ kind |-> "Ok", tokens |-> a, fn_name |-> format(a), width |-> 0 ]

-----------------------------------------------------------------------------
(* Function registry and dispatch *)

\* enum AlignerFn: Function(Option<fn>) or PFunction(Option<fn>)
AlignerFn(shape, present) == [shape |-> shape, present |-> present]

\* AlignerFn::is_none
is_none(f) == ~f.present

\* struct Aligner, as build() fills it
Aligner(f, self) ==
    [ parasail_fn |-> f,
      profile |-> self.profile,
      gap_open_penalty |-> self.gap_open_penalty,
      gap_extend_penalty |-> self.gap_extend_penalty ]

\* placeholder of the aligner field in a result that carries no Aligner
NoAligner == Aligner(AlignerFn("none", FALSE), DefaultBuilder)

\* the Result of build() and what build() did to obtain it: lookup is the
\* symbol table consulted, symbol what that table answered
BuildResult(kind, name, lookup, found, aligner) ==
    [ kind |-> kind, fn_name |-> name.fn_name, tokens |-> name.tokens,
      width |-> name.width, lookup |-> lookup,
      symbol |-> IF lookup = "none" THEN "none"
                 ELSE IF found THEN "found" ELSE "absent",
      aligner |-> aligner ]

\* build() without the strategy check made when a Profile is bound
build_any_strategy(self, found) ==
    LET name == get_parasail_fn_name(self)
        f    == IF self.profile.some
                THEN AlignerFn("PFunction", found)
                ELSE AlignerFn("Function", found)
        tbl  == IF self.profile.some THEN "pfunction" ELSE "function"
    IN  IF name.kind # "Ok"
        THEN BuildResult(name.kind, name, "none", found, NoAligner)
        ELSE IF is_none(f)
        THEN BuildResult("FunctionLookupFailed", name, tbl, found, NoAligner)
        ELSE BuildResult("Ok", name, tbl, found, Aligner(f, self))

\* build() without the is_none check on the looked-up callable
build_unchecked(self, found) ==
    LET name == get_parasail_fn_name(self)
    IN  IF name.kind # "Ok"
        THEN BuildResult(name.kind, name, "none", found, NoAligner)
        ELSE IF self.profile.some
        THEN IF self.vec_strategy # "_striped" /\ self.vec_strategy # "_scan"
             THEN BuildResult("IncompatibleProfileConfig", name, "none", found, NoAligner)
             ELSE BuildResult("Ok", name, "pfunction", found,
                              Aligner(AlignerFn("PFunction", found), self))
        ELSE BuildResult("Ok", name, "function", found,
                         Aligner(AlignerFn("Function", found), self))

\* build() looking every identifier up with parasail_lookup_function
build_one_table(self, found) ==
    LET name == get_parasail_fn_name(self)
        f    == AlignerFn("Function", found)
    IN  IF name.kind # "Ok"
        THEN BuildResult(name.kind, name, "none", found, NoAligner)
        ELSE IF self.profile.some /\ self.vec_strategy # "_striped"
                                  /\ self.vec_strategy # "_scan"
        THEN BuildResult("IncompatibleProfileConfig", name, "none", found, NoAligner)
        ELSE IF is_none(f)
        THEN BuildResult("FunctionLookupFailed", name, "function", found, NoAligner)
        ELSE BuildResult("Ok", name, "function", found, Aligner(f, self))

\* AlignerBuilder::build; found is the answer of the backend's symbol table:
\* parasail_lookup_pfunction when a Profile is bound, parasail_lookup_function
\* otherwise
build(self, found) ==
    LET name == get_parasail_fn_name(self)
        f    == IF self.profile.some
                THEN AlignerFn("PFunction", found)
                ELSE AlignerFn("Function", found)
        tbl  == IF self.profile.some THEN "pfunction" ELSE "function"
    IN  IF name.kind # "Ok"
        THEN BuildResult(name.kind, name, "none", found, NoAligner)
        ELSE IF self.profile.some /\ self.vec_strategy # "_striped"
                                  /\ self.vec_strategy # "_scan"
        THEN BuildResult("IncompatibleProfileConfig", name, "none", found, NoAligner)
        ELSE IF is_none(f)
        THEN BuildResult("FunctionLookupFailed", name, tbl, found, NoAligner)
        ELSE BuildResult("Ok", name, tbl, found, Aligner(f, self))

\* the Result of an alignment call on the Aligner self and the backend
\* invocation it made: backend is the call shape used, callee the callable it
\* went through, on_profile whether self has a Profile bound
AlignResult(kind, backend, self, null) ==
    [ kind |-> kind, backend |-> backend,
      callee |-> IF backend = "none" THEN "none" ELSE self.parasail_fn.shape,
      on_profile |-> self.profile.some,
      null_result |-> null,
      open |-> IF backend = "none" THEN 0 ELSE as_i32(self.gap_open_penalty),
      gap |-> IF backend = "none" THEN 0 ELSE as_i32(self.gap_extend_penalty) ]

\* Aligner::align; nul: an input holds an interior NUL byte, null: the backend
\* returns a null result
align(self, nul, null) ==
    IF nul THEN AlignResult("NulError", "none", self, FALSE)
    ELSE IF self.parasail_fn.shape = "Function"
    THEN IF ~self.parasail_fn.present
         THEN AlignResult("panic", "none", self, FALSE)
         ELSE AlignResult("Ok", "direct", self, null)
    ELSE AlignResult("IncompatibleAlignerFn", "none", self, FALSE)

\* Aligner::align_with_profile
align_with_profile(self, nul, null) ==
    IF nul THEN AlignResult("NulError", "none", self, FALSE)
    ELSE IF self.parasail_fn.shape = "PFunction"
    THEN IF self.profile.some
         THEN IF ~self.parasail_fn.present
              THEN AlignResult("panic", "none", self, FALSE)
              ELSE IF null
              THEN AlignResult("NulResult", "profile", self, TRUE)
              ELSE AlignResult("Ok", "profile", self, FALSE)
         ELSE AlignResult("NoProfileFound", "none", self, FALSE)
    ELSE AlignResult("IncompatibleAlignerFn", "none", self, FALSE)

-----------------------------------------------------------------------------
(* Matrix *)

\* alphabets given to Matrix::create, as symbols
Alphabets == {<<"A">>, <<"A", "C">>}

\* alphabets given to Matrix::create_pssm
PssmAlphabets == {<<"A", "C">>}

\* (match, mismatch) scores given to Matrix::create
Scores == {<<1, -1>>, <<3, -2>>}

\* the let bindings of the client that hold a Matrix: m, and m2 for a second one
Bindings == {"m", "m2"}

\* names given to Matrix::from: one the backend has a table for, one it has not
Names == {"blosum62", "blosum00"}

\* (row, col) arguments of get_value: the cells of a two-symbol alphabet, the
\* wildcard row and column, and a negative row and column
Indices == { <<0, 0>>, <<0, 1>>, <<1, 0>>, <<1, 1>>,
             <<2, 0>>, <<0, 2>>, <<-1, 0>>, <<0, -1>> }

\* (row, col) arguments of set_value: the cell the tests edit, a cell of the
\* second row, and two pairs out of range
EditIndices == { <<0, 0>>, <<1, 1>>, <<0, 2>>, <<-1, 0>> }

\* value arguments of set_value
Values == {100}

\* n_rows arguments of create_pssm: at least as many positions as symbols
PssmRows == {2}

\* files given to Matrix::from_file: a square table, and a file that is not there
Files == {"square.txt", "missing.txt"}

\* *const / *mut parasail_matrix_t: into the backend's static data or its heap
StaticPtr == [region |-> "static", addr |-> 0]
HeapPtr(a) == [region |-> "heap", addr |-> a]

\* parasail_matrix_t: size columns, length rows, and the flat row-major score
\* array that Display walks as matrix[i * size + j]; frees counts the
\* parasail_matrix_free calls made on it
Table(state, size, length, cells) ==
    [ state |-> state, size |-> size, length |-> length, cells |-> cells,
      frees |-> 0 ]

\* a heap address the backend has not handed out
NoTable == Table("unallocated", 0, 0, <<>>)

\* the static blosum62 table, cut down to the symbols A and R and the wildcard
Blosum62 == Table("static", 3, 3, <<4, -1, -4, -1, 5, -4, -4, -4, 1>>)

\* enum Matrix
Builtin(ptr) == [variant |-> "Builtin", ptr |-> ptr]
Custom(ptr) == [variant |-> "Custom", ptr |-> ptr]

\* the memory a Matrix call works on: the heap tables and the static table
Mem(heap, static) == [heap |-> heap, static |-> static]

\* impl Deref for Matrix, followed by the read of the pointer
deref(mem, ptr) ==
    IF ptr.region = "static" THEN mem.static ELSE mem.heap[ptr.addr]

\* a write through a table pointer
store(mem, ptr, pm) ==
    IF ptr.region = "static"
    THEN [mem EXCEPT !.static = pm]
    ELSE [mem EXCEPT !.heap[ptr.addr] = pm]

\* the backend can allocate one more table
HasFresh(heap) == \E a \in DOMAIN heap : heap[a].state = "unallocated"

\* the address of the backend's next allocation: addresses are handed out in
\* order and never again
fresh(heap) ==
    CHOOSE a \in DOMAIN heap :
        /\ heap[a].state = "unallocated"
        /\ \A b \in DOMAIN heap : b < a => heap[b].state # "unallocated"

\* a backend allocation holding pm
alloc(mem, pm) ==
    LET ptr == HeapPtr(fresh(mem.heap))
    IN  [mem |-> store(mem, ptr, pm), ptr |-> ptr]

\* parasail_matrix_create: match on the diagonal and mismatch off it for the
\* symbols of the alphabet, and a last row and column for the wildcard
parasail_matrix_create(alphabet, match_score, mismatch_score) ==
    LET n    == Len(alphabet)
        size == n + 1
    IN  Table("live", size, size,
              [k \in 1 .. size * size |->
                  LET row == (k - 1) \div size
                      col == (k - 1) % size
                  IN  IF row = n \/ col = n THEN 0
                      ELSE IF row = col THEN match_score
                      ELSE mismatch_score])

\* parasail_matrix_pssm_create: n_rows rows of the given values, and a last
\* column for the wildcard
parasail_matrix_pssm_create(alphabet, values, n_rows) ==
    LET n    == Len(alphabet)
        size == n + 1
    IN  Table("live", size, n_rows,
              [k \in 1 .. n_rows * size |->
                  LET row == (k - 1) \div size
                      col == (k - 1) % size
                  IN  IF col = n THEN 0 ELSE values[row * n + col + 1]])

\* parasail_matrix_copy: a table of its own with the same content
parasail_matrix_copy(pm) == Table("live", pm.size, pm.length, pm.cells)

\* parasail_matrix_free: nothing of the table is left to read
parasail_matrix_free(mem, ptr) ==
    store(mem, ptr, [NoTable EXCEPT !.state = "freed",
                                    !.frees = deref(mem, ptr).frees + 1])

\* parasail_matrix_set_value: the cell of (row, col) in the flat array
parasail_matrix_set_value(pm, row, col, value) ==
    [pm EXCEPT !.cells[row * pm.size + col + 1] = value]

\* what a Matrix call returned and the memory it left
MatrixResult(kind, mem, matrix, value, copied) ==
    [ kind |-> kind, mem |-> mem, matrix |-> matrix, value |-> value,
      copied |-> copied ]

\* Matrix::create; nul: the alphabet has an interior NUL byte; null: the backend
\* returned a null pointer
create(mem, alphabet, match_score, mismatch_score, nul, null) ==
    IF nul THEN MatrixResult("NulError", mem, Builtin(StaticPtr), 0, FALSE)
    ELSE IF null
    THEN MatrixResult("MatrixCreationFailed", mem, Builtin(StaticPtr), 0, FALSE)
    ELSE LET a == alloc(mem, parasail_matrix_create(alphabet, match_score,
                                                    mismatch_score))
         IN  MatrixResult("Ok", a.mem, Custom(a.ptr), 0, FALSE)

\* Matrix::create_pssm
create_pssm(mem, alphabet, values, n_rows, nul, null) ==
    IF nul THEN MatrixResult("NulError", mem, Builtin(StaticPtr), 0, FALSE)
    ELSE IF null
    THEN MatrixResult("PSSMCreationFailed", mem, Builtin(StaticPtr), 0, FALSE)
    ELSE LET a == alloc(mem, parasail_matrix_pssm_create(alphabet, values, n_rows))
         IN  MatrixResult("Ok", a.mem, Custom(a.ptr), 0, FALSE)

\* Matrix::from: parasail_matrix_lookup answers with the static table or null
from(mem, name, nul) ==
    IF nul THEN MatrixResult("NulError", mem, Builtin(StaticPtr), 0, FALSE)
    ELSE IF name # "blosum62"
    THEN MatrixResult("MatrixLookupFailed", mem, Builtin(StaticPtr), 0, FALSE)
    ELSE MatrixResult("Ok", mem, Builtin(StaticPtr), 0, FALSE)

\* Matrix::from_file: parasail_matrix_from_file answers with the table it
\* parsed on the heap, or null
from_file(mem, filepath, nul) ==
    IF nul THEN MatrixResult("NulError", mem, Builtin(StaticPtr), 0, FALSE)
    ELSE IF filepath # "square.txt"
    THEN MatrixResult("FromFileFailed", mem, Builtin(StaticPtr), 0, FALSE)
    ELSE LET a == alloc(mem, parasail_matrix_create(<<"A", "C">>, 3, -2))
         IN  MatrixResult("Ok", a.mem, Custom(a.ptr), 0, FALSE)

\* fn indices_are_valid
indices_are_valid(size, row, col) ==
    ~(row < 0 \/ row > size \/ col < 0 \/ col > size)

\* Matrix::get_value
get_value(mem, self, row, col) ==
    LET parasail_matrix == deref(mem, self.ptr)
        size == parasail_matrix.size - 2
    IN  IF ~indices_are_valid(size, row, col)
        THEN [kind |-> "InvalidIndex", value |-> 0]
        ELSE [kind |-> "Ok",
              value |-> parasail_matrix.cells[(row * (size + 1) + col) + 1]]

\* impl Clone for Matrix: the copy keeps the variant of the original
clone(mem, self) ==
    LET a == alloc(mem, parasail_matrix_copy(deref(mem, self.ptr)))
    IN  IF self.variant = "Builtin"
        THEN MatrixResult("Ok", a.mem, Builtin(a.ptr), 0, TRUE)
        ELSE MatrixResult("Ok", a.mem, Custom(a.ptr), 0, TRUE)

\* impl Drop for Matrix: only a Custom frees its table
drop(mem, self) ==
    IF self.variant = "Custom" THEN parasail_matrix_free(mem, self.ptr) ELSE mem

\* set_value writing through the pointer it is given, without the copy a
\* Builtin gets first
set_value_in_place(mem, self, row, col, value) ==
    LET parasail_matrix == deref(mem, self.ptr)
        size == parasail_matrix.size - 2
    IN  IF ~indices_are_valid(size, row, col)
        THEN MatrixResult("InvalidIndex", mem, self, 0, FALSE)
        ELSE MatrixResult("Ok",
                          store(mem, self.ptr,
                                parasail_matrix_set_value(parasail_matrix, row, col, value)),
                          self, 0, FALSE)

\* Matrix::set_value: a Builtin is replaced by its clone before anything else,
\* which drops the value the binding held; the indices are checked after that
set_value(mem, self, row, col, value) ==
    LET c    == IF self.variant = "Builtin"
                THEN clone(mem, self)
                ELSE MatrixResult("Ok", mem, self, 0, FALSE)
        mem1 == IF self.variant = "Builtin" THEN drop(c.mem, self) ELSE mem
        parasail_matrix == deref(mem1, c.matrix.ptr)
        size == parasail_matrix.size - 2
    IN  IF ~indices_are_valid(size, row, col)
        THEN MatrixResult("InvalidIndex", mem1, c.matrix, 0, c.copied)
        ELSE MatrixResult("Ok",
                          store(mem1, c.matrix.ptr,
                                parasail_matrix_set_value(parasail_matrix, row, col, value)),
                          c.matrix, 0, c.copied)

\* a binding that holds no Matrix
NoMatrix == [live |-> FALSE, variant |-> "none", ptr |-> StaticPtr]

\* a binding that holds the Matrix m
Bind(m) == [live |-> TRUE, variant |-> m.variant, ptr |-> m.ptr]

\* the record of a Matrix call, before the call fills it in
NoMret ==
    [ op |-> "none", slot |-> "none", kind |-> "none", value |-> 0, row |-> 0,
      col |-> 0, arg |-> 0, copied |-> FALSE, was |-> "none",
      alphabet |-> <<>>, match_score |-> 0, mismatch_score |-> 0 ]

-----------------------------------------------------------------------------
(* Alignment *)

\* *const parasail_result_t: null, or a handle of the backend
NullResult == [null |-> TRUE, addr |-> 0]
ResultPtr(a) == [null |-> FALSE, addr |-> a]

\* the capability flags of a result no callable has set
NoFlags == [stats |-> FALSE, table |-> FALSE, rowcol |-> FALSE, trace |-> FALSE]

\* a result handle the backend has not handed out; frees counts the
\* parasail_result_free calls made on the handle, stale_reads the accessor
\* calls that reached it after it was released; flags are the capability
\* flags the callable set in it, tokens the identifier of that callable
NoResult ==
    [ state |-> "unallocated", frees |-> 0, stale_reads |-> 0,
      flags |-> NoFlags, tokens |-> <<>>,
      score |-> 0, end_query |-> 0, end_ref |-> 0 ]

\* struct Alignment
Alignment(inner) == [inner |-> inner]

\* the backend can hand out one more result
HasFreshResult(res) == \E a \in DOMAIN res : res[a].state = "unallocated"

\* the handle of the backend's next result: handed out in order and never again
fresh_result(res) ==
    CHOOSE a \in DOMAIN res :
        /\ res[a].state = "unallocated"
        /\ \A b \in DOMAIN res : b < a => res[b].state # "unallocated"

\* Ok(Alignment { inner: alignment }) at the end of align and
\* align_with_profile: r is the outcome of the call; the Alignment wraps the
\* pointer the backend returned, null included
wrap(res, r) ==
    IF r.kind # "Ok" THEN [res |-> res, made |-> FALSE, alignment |-> Alignment(NullResult)]
    ELSE IF r.null_result
    THEN [res |-> res, made |-> TRUE, alignment |-> Alignment(NullResult)]
    ELSE [res |-> [res EXCEPT ![fresh_result(res)].state = "live"],
          made |-> TRUE,
          alignment |-> Alignment(ResultPtr(fresh_result(res)))]

\* parasail_result_free: nothing of the result is left to read
parasail_result_free(res, ptr) ==
    IF ptr.null THEN res
    ELSE [res EXCEPT ![ptr.addr] =
              [NoResult EXCEPT !.state = "freed", !.frees = res[ptr.addr].frees + 1,
                               !.stale_reads = res[ptr.addr].stale_reads]]

\* drop of an Alignment that forgets its handle
drop_alignment_forget(res, self) == res

\* impl Drop for Alignment
drop_alignment(res, self) == parasail_result_free(res, self.inner)

\* Alignment::get_score: parasail_result_get_score reads the handle
get_score(res, self) ==
    IF self.inner.null THEN [kind |-> "null", res |-> res]
    ELSE IF res[self.inner.addr].state # "live"
    THEN [kind |-> "stale",
          res |-> [res EXCEPT ![self.inner.addr].stale_reads = @ + 1]]
    ELSE [kind |-> "Ok", res |-> res]

\* the flags the backend callable named by tokens sets in the result it
\* returns: those of the family its identifier names
result_flags(tokens) ==
    [ stats  |-> tokens[4] = "_stats",
      table  |-> tokens[5] = "_table",
      rowcol |-> tokens[5] = "_rowcol",
      trace  |-> tokens[6] = "_trace" ]

\* what an accessor returned, and read: the backend getter it called, "none"
\* when it called none
Accessed(kind, read) == [kind |-> kind, read |-> read]

\* a backend getter called on the handle of self: a null handle and a
\* released one are not there to be read
getter(res, self, read) ==
    IF self.inner.null THEN Accessed("null", read)
    ELSE IF res[self.inner.addr].state # "live" THEN Accessed("stale", read)
    ELSE Accessed("Ok", read)

\* Alignment::is_stats, is_table, is_rowcol, is_trace: the flag in the handle
is_stats(res, self) == ~self.inner.null /\ res[self.inner.addr].flags.stats
is_table(res, self) == ~self.inner.null /\ res[self.inner.addr].flags.table
is_rowcol(res, self) == ~self.inner.null /\ res[self.inner.addr].flags.rowcol
is_trace(res, self) == ~self.inner.null /\ res[self.inner.addr].flags.trace

\* Alignment::get_end_query and Alignment::get_end_ref
get_end_query(res, self) == getter(res, self, "parasail_result_get_end_query")
get_end_ref(res, self) == getter(res, self, "parasail_result_get_end_ref")

\* get_matches without the is_stats check
get_matches_ungated(res, self) == getter(res, self, "parasail_result_get_matches")

\* Alignment::get_matches
get_matches(res, self) ==
    IF self.inner.null THEN Accessed("null", "parasail_result_is_stats")
    ELSE IF is_stats(res, self)
    THEN getter(res, self, "parasail_result_get_matches")
    ELSE Accessed("NoStatsReturned", "none")

\* Alignment::get_similar
get_similar(res, self) ==
    IF self.inner.null THEN Accessed("null", "parasail_result_is_stats")
    ELSE IF is_stats(res, self)
    THEN getter(res, self, "parasail_result_get_similar")
    ELSE Accessed("NoStatsReturned", "none")

\* Alignment::get_length
get_length(res, self) ==
    IF self.inner.null THEN Accessed("null", "parasail_result_is_stats")
    ELSE IF is_stats(res, self)
    THEN getter(res, self, "parasail_result_get_length")
    ELSE Accessed("NoStatsReturned", "none")

\* Alignment::get_score_table: the getter is called whatever the flags are
get_score_table(res, self) == getter(res, self, "parasail_result_get_score_table")

\* the accessors whose body is todo!()
TodoAccessors ==
    { "get_matches_table", "get_similar_table", "get_length_table",
      "get_score_row", "get_matches_row", "get_similar_row", "get_length_row",
      "get_score_col", "get_matches_col", "get_similar_col", "get_length_col",
      "get_trace_table", "get_trace_ins_table", "get_trace_del_table" }

\* todo!()
todo(res, self) == Accessed("panic", "none")


-----------------------------------------------------------------------------
(* Profile, and the Arcs through which builders and Aligners hold a Matrix
   and a Profile *)

\* the let bindings of the client that hold a Profile
ProfileBindings == {"query_profile", "query_profile_2"}

\* use_stats arguments of Profile::new
ProfileStats == {FALSE}

\* what a profile was made with: the use_stats flag its creator was looked up
\* with, the creator, and the table it was handed, with the cells it then had
NotBuilt ==
    [use_stats |-> FALSE, creator |-> "none", ptr |-> StaticPtr, cells |-> <<>>]

\* a profile handle the backend has not handed out; frees counts the calls of
\* the release function embedded in the handle
NoHandle == [state |-> "unallocated", frees |-> 0, built |-> NotBuilt]

\* struct Profile, and Option<Profile>
Profile(inner, use_stats) == [some |-> TRUE, inner |-> inner, use_stats |-> use_stats]
NoneProfile == [some |-> FALSE, inner |-> 0, use_stats |-> FALSE]

\* the backend can hand out one more profile
HasFreshProfile(profs) == \E h \in DOMAIN profs : profs[h].state = "unallocated"

\* the handle of the backend's next profile: handed out in order and never again
fresh_profile(profs) ==
    CHOOSE h \in DOMAIN profs :
        /\ profs[h].state = "unallocated"
        /\ \A g \in DOMAIN profs : g < h => profs[g].state # "unallocated"

\* ProfileBuilder::build; ok: the creator was found, the query has no interior
\* NUL byte and the backend returned a profile
profile_build(profs, use_stats, ok) ==
    IF ~ok THEN [kind |-> "Err", profs |-> profs, profile |-> NoneProfile]
    ELSE [kind |-> "Ok",
          profs |-> [profs EXCEPT ![fresh_profile(profs)].state = "live"],
          profile |-> Profile(fresh_profile(profs), use_stats)]

\* the arms of the match in profile_creator_lookup that return Ok
ProfileCreators ==
    (<<FALSE, "SSE2", NoWidth>> :> "parasail_profile_create_sse_128_sat")
 @@ (<<FALSE, "SSE2", SomeWidth(8)>> :> "parasail_profile_create_sse_128_8")
 @@ (<<FALSE, "SSE2", SomeWidth(16)>> :> "parasail_profile_create_sse_128_16")
 @@ (<<FALSE, "SSE2", SomeWidth(32)>> :> "parasail_profile_create_sse_128_32")
 @@ (<<FALSE, "SSE2", SomeWidth(64)>> :> "parasail_profile_create_sse_128_64")
 @@ (<<FALSE, "SSE41", NoWidth>> :> "parasail_profile_create_sse_128_sat")
 @@ (<<FALSE, "SSE41", SomeWidth(8)>> :> "parasail_profile_create_sse_128_8")
 @@ (<<FALSE, "SSE41", SomeWidth(16)>> :> "parasail_profile_create_sse_128_16")
 @@ (<<FALSE, "SSE41", SomeWidth(32)>> :> "parasail_profile_create_sse_128_32")
 @@ (<<FALSE, "SSE41", SomeWidth(64)>> :> "parasail_profile_create_sse_128_64")
 @@ (<<FALSE, "AVX2", NoWidth>> :> "parasail_profile_create_avx_256_sat")
 @@ (<<FALSE, "AVX2", SomeWidth(8)>> :> "parasail_profile_create_avx_256_8")
 @@ (<<FALSE, "AVX2", SomeWidth(16)>> :> "parasail_profile_create_avx_256_16")
 @@ (<<FALSE, "AVX2", SomeWidth(32)>> :> "parasail_profile_create_avx_256_32")
 @@ (<<FALSE, "AVX2", SomeWidth(64)>> :> "parasail_profile_create_avx_256_64")
 @@ (<<FALSE, "Neon", NoWidth>> :> "parasail_profile_create_neon_128_sat")
 @@ (<<FALSE, "Neon", SomeWidth(8)>> :> "parasail_profile_create_neon_128_8")
 @@ (<<FALSE, "Neon", SomeWidth(16)>> :> "parasail_profile_create_neon_128_16")
 @@ (<<FALSE, "Neon", SomeWidth(32)>> :> "parasail_profile_create_neon_128_32")
 @@ (<<FALSE, "Neon", SomeWidth(64)>> :> "parasail_profile_create_neon_128_64")
 @@ (<<FALSE, "AltiVec", NoWidth>> :> "parasail_profile_create_altivec_128_sat")
 @@ (<<FALSE, "AltiVec", SomeWidth(8)>> :> "parasail_profile_create_altivec_128_8")
 @@ (<<FALSE, "AltiVec", SomeWidth(16)>> :> "parasail_profile_create_altivec_128_16")
 @@ (<<FALSE, "AltiVec", SomeWidth(32)>> :> "parasail_profile_create_altivec_128_32")
 @@ (<<FALSE, "AltiVec", SomeWidth(64)>> :> "parasail_profile_create_altivec_128_64")
 @@ (<<FALSE, "None", NoWidth>> :> "parasail_profile_create_sat")
 @@ (<<FALSE, "None", SomeWidth(8)>> :> "parasail_profile_create_8")
 @@ (<<FALSE, "None", SomeWidth(16)>> :> "parasail_profile_create_16")
 @@ (<<FALSE, "None", SomeWidth(32)>> :> "parasail_profile_create_32")
 @@ (<<FALSE, "None", SomeWidth(64)>> :> "parasail_profile_create_64")
 @@ (<<TRUE, "SSE2", NoWidth>> :> "parasail_profile_create_stats_sse_128_sat")
 @@ (<<TRUE, "SSE2", SomeWidth(8)>> :> "parasail_profile_create_stats_sse_128_8")
 @@ (<<TRUE, "SSE2", SomeWidth(16)>> :> "parasail_profile_create_stats_sse_128_16")
 @@ (<<TRUE, "SSE2", SomeWidth(32)>> :> "parasail_profile_create_stats_sse_128_32")
 @@ (<<TRUE, "SSE2", SomeWidth(64)>> :> "parasail_profile_create_stats_sse_128_64")
 @@ (<<TRUE, "SSE41", NoWidth>> :> "parasail_profile_create_stats_sse_128_sat")
 @@ (<<TRUE, "SSE41", SomeWidth(8)>> :> "parasail_profile_create_stats_sse_128_8")
 @@ (<<TRUE, "SSE41", SomeWidth(16)>> :> "parasail_profile_create_stats_sse_128_16")
 @@ (<<TRUE, "SSE41", SomeWidth(32)>> :> "parasail_profile_create_stats_sse_128_32")
 @@ (<<TRUE, "SSE41", SomeWidth(64)>> :> "parasail_profile_create_stats_sse_128_64")
 @@ (<<TRUE, "AVX2", NoWidth>> :> "parasail_profile_create_stats_avx_256_sat")
 @@ (<<TRUE, "AVX2", SomeWidth(8)>> :> "parasail_profile_create_stats_avx_256_8")
 @@ (<<TRUE, "AVX2", SomeWidth(16)>> :> "parasail_profile_create_stats_avx_256_16")
 @@ (<<TRUE, "AVX2", SomeWidth(32)>> :> "parasail_profile_create_stats_avx_256_32")
 @@ (<<TRUE, "AVX2", SomeWidth(64)>> :> "parasail_profile_create_stats_avx_256_64")
 @@ (<<TRUE, "Neon", NoWidth>> :> "parasail_profile_create_stats_neon_128_sat")
 @@ (<<TRUE, "Neon", SomeWidth(8)>> :> "parasail_profile_create_stats_neon_128_8")
 @@ (<<TRUE, "Neon", SomeWidth(16)>> :> "parasail_profile_create_stats_neon_128_16")
 @@ (<<TRUE, "Neon", SomeWidth(32)>> :> "parasail_profile_create_stats_neon_128_32")
 @@ (<<TRUE, "Neon", SomeWidth(64)>> :> "parasail_profile_create_stats_neon_128_64")
 @@ (<<TRUE, "AltiVec", NoWidth>> :> "parasail_profile_create_stats_altivec_128_sat")
 @@ (<<TRUE, "AltiVec", SomeWidth(8)>> :> "parasail_profile_create_stats_altivec_128_8")
 @@ (<<TRUE, "AltiVec", SomeWidth(16)>> :> "parasail_profile_create_stats_altivec_128_16")
 @@ (<<TRUE, "AltiVec", SomeWidth(32)>> :> "parasail_profile_create_stats_altivec_128_32")
 @@ (<<TRUE, "AltiVec", SomeWidth(64)>> :> "parasail_profile_create_stats_altivec_128_64")
 @@ (<<TRUE, "None", NoWidth>> :> "parasail_profile_create_stats_sat")
 @@ (<<TRUE, "None", SomeWidth(8)>> :> "parasail_profile_create_stats_8")
 @@ (<<TRUE, "None", SomeWidth(16)>> :> "parasail_profile_create_stats_16")
 @@ (<<TRUE, "None", SomeWidth(32)>> :> "parasail_profile_create_stats_32")
 @@ (<<TRUE, "None", SomeWidth(64)>> :> "parasail_profile_create_stats_64")

\* Error::FunctionLookupFailed { use_stats, instruction_set, solution_width }
NotFailed ==
    [use_stats |-> FALSE, instruction_set |-> "None", solution_width |-> NoWidth]

\* profile_creator_lookup with the arm of the statistics creator for Neon
\* and 16 bits returning the plain creator
profile_creator_lookup_plain(stats, iset, width) ==
    LET arm == <<stats, iset, width>>
    IN  IF arm = <<TRUE, "Neon", SomeWidth(16)>>
        THEN [kind |-> "Ok", creator |-> "parasail_profile_create_neon_128_16",
              failed |-> NotFailed]
        ELSE IF arm \in DOMAIN ProfileCreators
        THEN [kind |-> "Ok", creator |-> ProfileCreators[arm], failed |-> NotFailed]
        ELSE [kind |-> "FunctionLookupFailed", creator |-> "none",
              failed |-> [use_stats |-> stats,
                          instruction_set |-> iset,
                          solution_width |-> width]]

\* profile_creator_lookup
profile_creator_lookup(stats, iset, width) ==
    LET arm == <<stats, iset, width>>
    IN  IF arm \in DOMAIN ProfileCreators
        THEN [kind |-> "Ok", creator |-> ProfileCreators[arm], failed |-> NotFailed]
        ELSE [kind |-> "FunctionLookupFailed", creator |-> "none",
              failed |-> [use_stats |-> stats,
                          instruction_set |-> iset,
                          solution_width |-> width]]

\* struct ProfileBuilder: matrix is the binding of the Matrix it borrows
ProfileBuilder(matrix) ==
    [ live |-> TRUE, matrix |-> matrix, use_stats |-> FALSE,
      solution_width |-> NoWidth, instruction_set |-> "None" ]

\* no ProfileBuilder is alive
NoProfileBuilder == [ProfileBuilder("m") EXCEPT !.live = FALSE]

\* ProfileBuilder::use_stats, solution_width and instruction_set
profile_use_stats(self) == [self EXCEPT !.use_stats = TRUE]
profile_solution_width(self, width) ==
    [self EXCEPT !.solution_width = SomeWidth(width)]
profile_instruction_set(self, iset) ==
    [self EXCEPT !.instruction_set = iset]

\* what a call on the ProfileBuilder returned
NoPret ==
    [op |-> "none", kind |-> "none", creator |-> "none", failed |-> NotFailed]

\* #[derive(Clone)] on Profile: the pointer is copied, the handle is not
profile_clone(self) == Profile(self.inner, self.use_stats)

\* impl Drop for Profile: the release function read from the handle is called
\* on the handle; on a handle already released the read is of freed memory, and
\* again says whether it still finds the function there
profile_drop(profs, self, again) ==
    IF profs[self.inner].state = "live"
    THEN [profs EXCEPT ![self.inner].state = "freed", ![self.inner].frees = @ + 1]
    ELSE IF again
    THEN [profs EXCEPT ![self.inner].frees = @ + 1]
    ELSE profs

\* drop of an Option<Profile>
option_drop(profs, opt, again) ==
    IF opt.some THEN profile_drop(profs, opt, again) ELSE profs

\* the cells an Arc can be allocated in: one per owner and one to spare
ArcIds == 1 .. (MaxAligners + 2)

\* an Arc cell not in use: strong is the reference count
NoArc(value) == [strong |-> 0, value |-> value]

\* the cell of the next Arc::new
fresh_arc(arcs) ==
    CHOOSE id \in DOMAIN arcs :
        /\ arcs[id].strong = 0
        /\ \A u \in DOMAIN arcs : u < id => arcs[u].strong # 0

\* a cell is there for the next Arc::new
HasFreshArc(arcs) == \E id \in DOMAIN arcs : arcs[id].strong = 0

\* Arc::new(value)
arc_new(arcs, value) ==
    [arcs EXCEPT ![fresh_arc(arcs)] = [strong |-> 1, value |-> value]]

\* Arc::clone
arc_clone(arcs, id) == [arcs EXCEPT ![id].strong = @ + 1]

\* the drop of the Arc took the last reference
is_last(arcs, id) == arcs[id].strong = 1

\* drop of an Arc: the count goes down by one
arc_drop(arcs, id, none) ==
    IF is_last(arcs, id)
    THEN [arcs EXCEPT ![id] = NoArc(none)]
    ELSE [arcs EXCEPT ![id].strong = @ - 1]

\* what the handles look like after the Arc<Matrix> id is dropped: the Matrix
\* is dropped with the last reference
matrix_arc_drop(m, arcs, id) ==
    IF is_last(arcs, id) THEN drop(m, arcs[id].value) ELSE m

\* what the handles look like after the Arc<Option<Profile>> id is dropped
profile_arc_drop(profs, arcs, id, again) ==
    IF is_last(arcs, id) THEN option_drop(profs, arcs[id].value, again) ELSE profs

\* struct AlignerBuilder and struct Aligner, as owners of two Arcs; pc is where
\* the thread that holds an Aligner is: between calls ("idle"), or inside an
\* alignment call ("in_call")
NoOwner == [live |-> FALSE, matrix |-> 0, profile |-> 0, pc |-> "unmade"]

\* the bag that holds one Aligner
One(a) == SetToBag({a})

\* the builder after it went out of scope
DroppedOwner == [NoOwner EXCEPT !.pc = "dropped"]
Owner(matrix_arc, profile_arc) ==
    [live |-> TRUE, matrix |-> matrix_arc, profile |-> profile_arc, pc |-> "idle"]

-----------------------------------------------------------------------------
(* The calls a client makes *)

Init ==
    /\ builder = DefaultBuilder
    /\ table_calls = <<>>
    /\ last_instruction_set = "none"
    /\ ncalls = 0
    /\ aligners = <<>>
    /\ ret = [NoRet EXCEPT !.op = "new"]
    /\ tables = [a \in 1 .. MaxTables |-> NoTable]
    /\ static_table = Blosum62
    /\ matrices = [s \in Bindings |-> NoMatrix]
    /\ nedits = 0
    /\ mret = NoMret
    /\ results = [a \in 1 .. MaxResults |-> NoResult]
    /\ alignments = <<>>
    /\ profiles = [h \in 1 .. MaxProfiles |-> NoHandle]
    /\ profile_values = [b \in ProfileBindings |-> NoneProfile]
    /\ matrix_arcs = [id \in ArcIds |-> NoArc(Builtin(StaticPtr))]
    /\ profile_arcs = [id \in ArcIds |-> NoArc(NoneProfile)]
    /\ owner_builder = NoOwner
    /\ owner_aligners = EmptyBag
    /\ shared = [tables |-> {}, profiles |-> {}]
    /\ profile_builder = NoProfileBuilder
    /\ pret = NoPret
    /\ lib_builder = LibDefault
    /\ lib_calls = <<>>
    /\ lib_ret = NoName

\* Aligner::new(): a fresh default builder replaces the current one
New ==
    /\ builder' = DefaultBuilder
    /\ table_calls' = <<>>
    /\ last_instruction_set' = "none"
    /\ ncalls' = 0
    /\ ret' = [NoRet EXCEPT !.op = "new"]
    /\ UNCHANGED <<aligners, resource_vars>>

\* a chained setter call: the builder becomes b
Setter(b) ==
    /\ ncalls < MaxSetterCalls
    /\ builder' = b
    /\ ncalls' = ncalls + 1
    /\ ret' = NoRet
    /\ UNCHANGED <<aligners, resource_vars>>

\* what a setter other than the recorded ones leaves of the histories
NotRecorded == UNCHANGED <<table_calls, last_instruction_set>>

Global == Setter(global(builder)) /\ NotRecorded

SemiGlobal == Setter(semi_global(builder)) /\ NotRecorded

Local == Setter(local(builder)) /\ NotRecorded

AllowQueryGaps ==
    \E gap \in Gap : Setter(allow_query_gaps(builder, gap)) /\ NotRecorded

AllowRefGaps ==
    \E gap \in Gap : Setter(allow_ref_gaps(builder, gap)) /\ NotRecorded

ReturnStats == Setter(return_stats(builder)) /\ NotRecorded

EnableTraceback == Setter(enable_traceback(builder)) /\ NotRecorded

ReturnTable ==
    /\ Setter(return_table(builder))
    /\ table_calls' = Append(table_calls, "return_table")
    /\ UNCHANGED last_instruction_set

ReturnLastRowcol ==
    /\ Setter(return_last_rowcol(builder))
    /\ table_calls' = Append(table_calls, "return_last_rowcol")
    /\ UNCHANGED last_instruction_set

Scan == Setter(scan(builder)) /\ NotRecorded

Striped == Setter(striped(builder)) /\ NotRecorded

Diag == Setter(diag(builder)) /\ NotRecorded

SolutionWidth ==
    \E w \in WidthInputs : Setter(solution_width(builder, w)) /\ NotRecorded

SetInstructionSet ==
    \E is \in InstructionSet :
        /\ Setter(instruction_set(builder, is))
        /\ last_instruction_set' = is
        /\ UNCHANGED table_calls

SetProfile ==
    \E s \in BOOLEAN : Setter(profile(builder, SomeProfile(s))) /\ NotRecorded

\* a direct call of get_parasail_fn_name, as the unit test makes it
GetParasailFnName ==
    LET r == get_parasail_fn_name(builder)
    IN  /\ ret' = [NoRet EXCEPT !.op = "get_parasail_fn_name", !.kind = r.kind,
                                !.fn_name = r.fn_name, !.tokens = r.tokens,
                                !.width = r.width]
        /\ UNCHANGED <<builder, table_calls, last_instruction_set, ncalls, aligners, resource_vars>>

\* AlignerBuilder::build(&self): the builder stays usable, an Aligner is
\* handed out only on Ok
Build ==
    /\ Len(aligners) < MaxAligners
    /\ \E found \in BOOLEAN :
          LET r == build(builder, found)
          IN  /\ ret' = [NoRet EXCEPT !.op = "build", !.kind = r.kind,
                                      !.fn_name = r.fn_name, !.tokens = r.tokens,
                                      !.width = r.width, !.lookup = r.lookup,
                                      !.symbol = r.symbol]
              /\ aligners' = IF r.kind = "Ok"
                             THEN Append(aligners, r.aligner) ELSE aligners
    /\ UNCHANGED <<builder, table_calls, last_instruction_set, ncalls, resource_vars>>

\* #[derive(Clone)] on Aligner
CloneAligner ==
    /\ Len(aligners) < MaxAligners
    /\ \E i \in 1..Len(aligners) :
          /\ aligners' = Append(aligners, aligners[i])
          /\ ret' = [NoRet EXCEPT !.op = "clone", !.kind = "Ok"]
    /\ UNCHANGED <<builder, table_calls, last_instruction_set, ncalls, resource_vars>>

Align ==
    /\ \E i \in 1..Len(aligners), nul \in BOOLEAN, null \in BOOLEAN :
          LET r == align(aligners[i], nul, null)
          IN  ret' = [NoRet EXCEPT !.op = "align", !.kind = r.kind,
                                   !.backend = r.backend, !.callee = r.callee,
                                   !.on_profile = r.on_profile,
                                   !.null_result = r.null_result]
    /\ UNCHANGED <<builder, table_calls, last_instruction_set, ncalls, aligners, resource_vars>>

AlignWithProfile ==
    /\ \E i \in 1..Len(aligners), nul \in BOOLEAN, null \in BOOLEAN :
          LET r == align_with_profile(aligners[i], nul, null)
          IN  ret' = [NoRet EXCEPT !.op = "align_with_profile", !.kind = r.kind,
                                   !.backend = r.backend, !.callee = r.callee,
                                   !.on_profile = r.on_profile,
                                   !.null_result = r.null_result]
    /\ UNCHANGED <<builder, table_calls, last_instruction_set, ncalls, aligners, resource_vars>>

\* an Aligner goes out of scope
DropAligner ==
    /\ \E i \in 1..Len(aligners) :
          aligners' = SubSeq(aligners, 1, i - 1) \o SubSeq(aligners, i + 1, Len(aligners))
    /\ ret' = [NoRet EXCEPT !.op = "drop"]
    /\ UNCHANGED <<builder, table_calls, last_instruction_set, ncalls, resource_vars>>

\* the chained setters of AlignerBuilder
Setters ==
    \/ Global
    \/ SemiGlobal
    \/ Local
    \/ AllowQueryGaps
    \/ AllowRefGaps
    \/ ReturnStats
    \/ EnableTraceback
    \/ ReturnTable
    \/ ReturnLastRowcol
    \/ Scan
    \/ Striped
    \/ Diag
    \/ SolutionWidth
    \/ SetInstructionSet
    \/ SetProfile

\* a client that configures builders and resolves their identifiers
NextBuilder ==
    \/ New
    \/ Setters
    \/ GetParasailFnName

SpecBuilder == Init /\ [][NextBuilder]_vars

\* a client that configures a builder, builds Aligners from it at any point
\* and aligns with them
NextDispatch ==
    \/ (ncalls < MaxCallsBeforeBuild /\ Setters)
    \/ GetParasailFnName
    \/ Build
    \/ CloneAligner
    \/ Align
    \/ AlignWithProfile
    \/ DropAligner

SpecDispatch == Init /\ [][NextDispatch]_vars

\* a client that sets strategy, width and profile on a builder in any order
\* and builds Aligners from it at any point
NextBuild ==
    \/ Scan
    \/ Striped
    \/ Diag
    \/ SolutionWidth
    \/ SetProfile
    \/ Build
    \/ DropAligner

SpecBuild == Init /\ [][NextBuild]_vars

-----------------------------------------------------------------------------
(* The calls a client makes on Matrix values *)

\* the memory as the next Matrix call finds it
mem == Mem(tables, static_table)

\* the memory and the bindings a Matrix call leaves
Leaves(m, ms) ==
    /\ tables' = m.heap
    /\ static_table' = m.static
    /\ matrices' = ms

\* what a Matrix call leaves alone outside the Matrix layer
OutsideMatrix ==
    UNCHANGED <<builder_vars, result_vars, owner_vars, creator_vars, lib_vars>>

\* a let binding is free to receive a new Matrix
HasFreeSlot == \E s \in DOMAIN matrices : ~matrices[s].live

\* the binding that receives the next Matrix
FreeSlot == IF ~matrices["m"].live THEN "m" ELSE "m2"

\* the bindings after the Result r of a constructor is bound
Bound(r) ==
    IF r.kind = "Ok"
    THEN [matrices EXCEPT ![FreeSlot] = Bind(r.matrix)]
    ELSE matrices

\* let m = Matrix::create(alphabet, match, mismatch)
Create ==
    /\ HasFreeSlot
    /\ HasFresh(tables)
    /\ \E alphabet \in Alphabets, sc \in Scores, nul \in BOOLEAN, null \in BOOLEAN :
          LET r == create(mem, alphabet, sc[1], sc[2], nul, null)
          IN  /\ Leaves(r.mem, Bound(r))
              /\ mret' = [NoMret EXCEPT !.op = "create", !.slot = FreeSlot,
                                        !.kind = r.kind, !.alphabet = alphabet,
                                        !.match_score = sc[1],
                                        !.mismatch_score = sc[2]]
    /\ UNCHANGED nedits
    /\ OutsideMatrix

\* let m = Matrix::create_pssm(alphabet, values, n_rows)
CreatePssm ==
    /\ HasFreeSlot
    /\ HasFresh(tables)
    /\ \E alphabet \in PssmAlphabets, n_rows \in PssmRows, nul \in BOOLEAN, null \in BOOLEAN :
          LET values == [k \in 1 .. n_rows * Len(alphabet) |-> k]
              r == create_pssm(mem, alphabet, values, n_rows, nul, null)
          IN  /\ Leaves(r.mem, Bound(r))
              /\ mret' = [NoMret EXCEPT !.op = "create_pssm", !.slot = FreeSlot,
                                        !.kind = r.kind, !.alphabet = alphabet]
    /\ UNCHANGED nedits
    /\ OutsideMatrix

\* let m = Matrix::from(name)
From ==
    /\ HasFreeSlot
    /\ \E name \in Names, nul \in BOOLEAN :
          LET r == from(mem, name, nul)
          IN  /\ Leaves(r.mem, Bound(r))
              /\ mret' = [NoMret EXCEPT !.op = "from", !.slot = FreeSlot,
                                        !.kind = r.kind]
    /\ UNCHANGED nedits
    /\ OutsideMatrix

\* let m = Matrix::from_file(filepath)
FromFile ==
    /\ HasFreeSlot
    /\ HasFresh(tables)
    /\ \E filepath \in Files, nul \in BOOLEAN :
          LET r == from_file(mem, filepath, nul)
          IN  /\ Leaves(r.mem, Bound(r))
              /\ mret' = [NoMret EXCEPT !.op = "from_file", !.slot = FreeSlot,
                                        !.kind = r.kind]
    /\ UNCHANGED nedits
    /\ OutsideMatrix

\* let m2 = m.clone()
Clone ==
    /\ HasFreeSlot
    /\ HasFresh(tables)
    /\ \E s \in DOMAIN matrices :
          /\ matrices[s].live
          /\ LET r == clone(mem, matrices[s])
             IN  /\ Leaves(r.mem, Bound(r))
                 /\ mret' = [NoMret EXCEPT !.op = "clone", !.slot = FreeSlot,
                                           !.kind = r.kind, !.copied = r.copied,
                                           !.was = matrices[s].variant]
    /\ UNCHANGED nedits
    /\ OutsideMatrix

\* m.set_value(row, col, value)
SetValue ==
    /\ nedits < MaxEdits
    /\ \E s \in DOMAIN matrices, rc \in EditIndices, value \in Values :
          /\ matrices[s].live
          /\ matrices[s].variant = "Builtin" => HasFresh(tables)
          /\ LET row == rc[1]
                 col == rc[2]
                 r == set_value(mem, matrices[s], row, col, value)
             IN  /\ Leaves(r.mem, [matrices EXCEPT ![s] = Bind(r.matrix)])
                 /\ mret' = [NoMret EXCEPT !.op = "set_value", !.slot = s,
                                           !.kind = r.kind, !.row = row,
                                           !.col = col, !.arg = value,
                                           !.copied = r.copied,
                                           !.was = matrices[s].variant]
    /\ nedits' = nedits + 1
    /\ OutsideMatrix

\* m.get_value(row, col)
GetValue ==
    /\ \E s \in DOMAIN matrices, rc \in Indices :
          /\ matrices[s].live
          /\ LET row == rc[1]
                 col == rc[2]
                 r == get_value(mem, matrices[s], row, col)
             IN  mret' = [NoMret EXCEPT !.op = "get_value", !.slot = s,
                                        !.kind = r.kind, !.value = r.value,
                                        !.row = row, !.col = col]
    /\ UNCHANGED <<tables, static_table, matrices, nedits>>
    /\ OutsideMatrix

\* a Matrix goes out of scope
DropMatrix ==
    /\ \E s \in DOMAIN matrices :
          /\ matrices[s].live
          /\ Leaves(drop(mem, matrices[s]), [matrices EXCEPT ![s] = NoMatrix])
          /\ mret' = [NoMret EXCEPT !.op = "drop", !.slot = s]
    /\ UNCHANGED nedits
    /\ OutsideMatrix

\* a client that makes, copies, edits, reads and drops matrices; a read that
\* follows a read finds what the first one found and is left out
NextMatrix ==
    \/ Create
    \/ CreatePssm
    \/ From
    \/ FromFile
    \/ Clone
    \/ SetValue
    \/ (mret.op # "get_value" /\ GetValue)
    \/ DropMatrix

SpecMatrix == Init /\ [][NextMatrix]_vars

-----------------------------------------------------------------------------
(* The calls a client makes on Alignment values *)

\* what a call on an Aligner or an Alignment leaves alone outside the result
\* handles, the Alignments and ret
OutsideAlignment ==
    UNCHANGED <<builder, table_calls, last_instruction_set, ncalls, aligners,
                matrix_vars, owner_vars, creator_vars, lib_vars>>

\* the handles and Alignments after the outcome r of an alignment call is bound
Kept(r) ==
    LET w == wrap(results, r)
    IN  /\ results' = w.res
        /\ alignments' = IF w.made THEN Append(alignments, w.alignment)
                          ELSE alignments

\* let alignment = aligner.align(query, reference)
LetAlign ==
    /\ HasFreshResult(results)
    /\ Len(alignments) < MaxResults
    /\ \E i \in 1 .. Len(aligners), nul \in BOOLEAN, null \in BOOLEAN :
          LET r == align(aligners[i], nul, null)
          IN  /\ ret' = [NoRet EXCEPT !.op = "align", !.kind = r.kind,
                                      !.backend = r.backend, !.callee = r.callee,
                                      !.on_profile = r.on_profile,
                                      !.null_result = r.null_result]
              /\ Kept(r)
    /\ OutsideAlignment

\* let alignment = aligner.align_with_profile(reference)
LetAlignWithProfile ==
    /\ HasFreshResult(results)
    /\ Len(alignments) < MaxResults
    /\ \E i \in 1 .. Len(aligners), nul \in BOOLEAN, null \in BOOLEAN :
          LET r == align_with_profile(aligners[i], nul, null)
          IN  /\ ret' = [NoRet EXCEPT !.op = "align_with_profile", !.kind = r.kind,
                                      !.backend = r.backend, !.callee = r.callee,
                                      !.on_profile = r.on_profile,
                                      !.null_result = r.null_result]
              /\ Kept(r)
    /\ OutsideAlignment

\* alignment.get_score()
GetScore ==
    /\ \E i \in 1 .. Len(alignments) :
          LET r == get_score(results, alignments[i])
          IN  /\ results' = r.res
              /\ ret' = [NoRet EXCEPT !.op = "get_score", !.kind = r.kind]
    /\ UNCHANGED alignments
    /\ OutsideAlignment

\* an Alignment goes out of scope
DropAlignment ==
    /\ \E i \in 1 .. Len(alignments) :
          /\ results' = drop_alignment(results, alignments[i])
          /\ alignments' = SubSeq(alignments, 1, i - 1)
                              \o SubSeq(alignments, i + 1, Len(alignments))
    /\ ret' = [NoRet EXCEPT !.op = "drop_alignment"]
    /\ OutsideAlignment

\* a client that builds an Aligner of either shape, keeps the Alignments it
\* returns, reads them and drops them
NextAlignment ==
    \/ (ncalls < MaxCallsBeforeBuild /\ (Striped \/ SetProfile))
    \/ Build
    \/ LetAlign
    \/ LetAlignWithProfile
    \/ GetScore
    \/ DropAlignment

SpecAlignment == Init /\ [][NextAlignment]_vars

-----------------------------------------------------------------------------
(* The calls a client makes to configure a builder, align with the Aligner
   built from it, and read the Alignment *)

\* the accessors that need a statistics result
StatsAccessors == {"get_matches", "get_similar", "get_length"}

\* the accessors that need none
PlainAccessors == {"get_score", "get_end_query", "get_end_ref"}

\* let alignment = builder.build()?.align(query, reference)?: the callable
\* build() resolved sets the flags of its family in the result it returns
LetBuildAlign ==
    /\ HasFreshResult(results)
    /\ Len(alignments) < MaxResults
    /\ \E found \in BOOLEAN, nul \in BOOLEAN, null \in BOOLEAN :
          LET b == build(builder, found)
              r == align(b.aligner, nul, null)
              w == wrap(results, r)
              a == w.alignment.inner
          IN  IF b.kind # "Ok"
              THEN /\ ret' = [NoRet EXCEPT !.op = "build", !.kind = b.kind,
                                           !.fn_name = b.fn_name,
                                           !.tokens = b.tokens, !.width = b.width,
                                           !.lookup = b.lookup, !.symbol = b.symbol]
                   /\ UNCHANGED <<results, alignments>>
              ELSE /\ ret' = [NoRet EXCEPT !.op = "align", !.kind = r.kind,
                                           !.fn_name = b.fn_name,
                                           !.tokens = b.tokens,
                                           !.backend = r.backend,
                                           !.callee = r.callee,
                                           !.null_result = r.null_result]
                   /\ results' =
                         IF w.made /\ ~a.null
                         THEN [w.res EXCEPT ![a.addr].flags = result_flags(b.tokens),
                                            ![a.addr].tokens = b.tokens]
                         ELSE w.res
                   /\ alignments' = IF w.made THEN Append(alignments, w.alignment)
                                    ELSE alignments
    /\ OutsideAlignment

\* what the accessor name returns on the Alignment self
accessor(name, res, self) ==
    CASE name = "get_matches" -> get_matches(res, self)
      [] name = "get_similar" -> get_similar(res, self)
      [] name = "get_length" -> get_length(res, self)
      [] name = "get_score" -> getter(res, self, "parasail_result_get_score")
      [] name = "get_end_query" -> get_end_query(res, self)
      [] name = "get_end_ref" -> get_end_ref(res, self)
      [] name = "get_score_table" -> get_score_table(res, self)
      [] OTHER -> todo(res, self)

\* alignments[i].name(): the call of one accessor on one Alignment
Accessor(name, i) ==
    /\ LET r == accessor(name, results, alignments[i])
       IN  ret' = [NoRet EXCEPT !.op = name, !.kind = r.kind, !.backend = r.read]
    /\ UNCHANGED <<results, alignments>>
    /\ OutsideAlignment

\* alignment.get_matches(), get_similar(), get_length()
GetStats ==
    \E i \in 1 .. Len(alignments), name \in StatsAccessors : Accessor(name, i)

\* alignment.get_score(), get_end_query(), get_end_ref()
GetPlain ==
    \E i \in 1 .. Len(alignments), name \in PlainAccessors : Accessor(name, i)

\* alignment.get_score_table() and the accessors after it
GetTable ==
    \E i \in 1 .. Len(alignments), name \in {"get_score_table"} \cup TodoAccessors :
        Accessor(name, i)

\* a client that asks a builder for statistics, traceback or tables, aligns
\* with the Aligner built from it, reads the Alignment and drops it before it
\* aligns again
NextAccessors ==
    \/ New
    \/ (ncalls < MaxCallsBeforeBuild /\ ReturnStats)
    \/ (ncalls < MaxCallsBeforeBuild /\ EnableTraceback)
    \/ (ncalls < MaxCallsBeforeBuild /\ ReturnTable)
    \/ (ncalls < MaxCallsBeforeBuild /\ ReturnLastRowcol)
    \/ (alignments = <<>> /\ LetBuildAlign)
    \/ GetStats
    \/ GetPlain
    \/ GetTable
    \/ DropAlignment

SpecAccessors == Init /\ [][NextAccessors]_vars

-----------------------------------------------------------------------------
(* The calls a client makes on Profiles, and on a builder and its Aligners as
   owners of a Matrix and a Profile *)

\* a release function was called twice on one handle: what the process does
\* from there on is not followed
ReleasedTwice == \E h \in DOMAIN profiles : profiles[h].frees > 1

\* the client has not made its builder: it is still making its matrices and
\* profiles
NoOwners == owner_builder = NoOwner

\* what a call that moves, shares or drops a handle leaves alone
OutsideOwnership ==
    UNCHANGED <<builder_vars, result_vars, static_table, nedits, mret,
                creator_vars, lib_vars>>

\* an Arc<Matrix> cell that holds nothing
NoMatrixArc == NoArc(Builtin(StaticPtr))

\* an Arc<Option<Profile>> cell that holds nothing
NoProfileArc == NoArc(NoneProfile)

\* the handles held by an Arc with more than one owner are marked as shared
Marked(marcs, parcs) ==
    [ tables |-> shared.tables \cup
                 { a \in DOMAIN tables : \E id \in DOMAIN marcs :
                      /\ marcs[id].strong > 1
                      /\ marcs[id].value.ptr = HeapPtr(a) },
      profiles |-> shared.profiles \cup
                   { h \in DOMAIN profiles : \E id \in DOMAIN parcs :
                        /\ parcs[id].strong > 1
                        /\ parcs[id].value.some
                        /\ parcs[id].value.inner = h } ]

\* let matrix = Matrix::from("blosum62")?
LetFrom ==
    /\ ~ReleasedTwice
    /\ NoOwners
    /\ HasFreeSlot
    /\ LET r == from(mem, "blosum62", FALSE)
       IN  /\ tables' = r.mem.heap
           /\ matrices' = Bound(r)
    /\ UNCHANGED owner_vars
    /\ OutsideOwnership

\* let matrix_2 = matrix.clone()
LetClone ==
    /\ ~ReleasedTwice
    /\ NoOwners
    /\ HasFreeSlot
    /\ HasFresh(tables)
    /\ \E s \in DOMAIN matrices :
          /\ matrices[s].live
          /\ LET r == clone(mem, matrices[s])
             IN  /\ tables' = r.mem.heap
                 /\ matrices' = Bound(r)
    /\ UNCHANGED owner_vars
    /\ OutsideOwnership

\* let query_profile = Profile::new(query, &matrix).build()?
ProfileBuild ==
    /\ ~ReleasedTwice
    /\ NoOwners
    /\ HasFreshProfile(profiles)
    /\ \E b \in ProfileBindings, use_stats \in ProfileStats, ok \in BOOLEAN :
          /\ ~profile_values[b].some
          /\ LET r == profile_build(profiles, use_stats, ok)
             IN  /\ profiles' = r.profs
                 /\ profile_values' = [profile_values EXCEPT ![b] = r.profile]
    /\ UNCHANGED <<tables, matrices, matrix_arcs, profile_arcs, owner_builder,
                   owner_aligners, shared>>
    /\ OutsideOwnership

\* let query_profile_2 = query_profile.clone()
ProfileClone ==
    /\ ~ReleasedTwice
    /\ NoOwners
    /\ \E b \in ProfileBindings, c \in ProfileBindings :
          /\ profile_values[b].some
          /\ ~profile_values[c].some
          /\ profile_values' =
                [profile_values EXCEPT ![c] = profile_clone(profile_values[b])]
    /\ UNCHANGED <<tables, matrices, profiles, matrix_arcs, profile_arcs,
                   owner_builder, owner_aligners, shared>>
    /\ OutsideOwnership

\* a Profile goes out of scope
ProfileDrop ==
    /\ ~ReleasedTwice
    /\ \E b \in ProfileBindings, again \in BOOLEAN :
          /\ profile_values[b].some
          /\ profiles' = profile_drop(profiles, profile_values[b], again)
          /\ profile_values' = [profile_values EXCEPT ![b] = NoneProfile]
    /\ UNCHANGED <<tables, matrices, matrix_arcs, profile_arcs, owner_builder,
                   owner_aligners, shared>>
    /\ OutsideOwnership

\* let mut builder = Aligner::new(): AlignerBuilder::default() puts
\* Matrix::default() and None in an Arc each
AlignerNew ==
    /\ ~ReleasedTwice
    /\ NoOwners
    /\ HasFresh(tables)
    /\ HasFreshArc(matrix_arcs)
    /\ HasFreshArc(profile_arcs)
    /\ LET r == create(mem, <<"A", "C", "G", "T">>, 1, -1, FALSE, FALSE)
       IN  /\ tables' = r.mem.heap
           /\ matrix_arcs' = arc_new(matrix_arcs, r.matrix)
    /\ profile_arcs' = arc_new(profile_arcs, NoneProfile)
    /\ owner_builder' = Owner(fresh_arc(matrix_arcs), fresh_arc(profile_arcs))
    /\ UNCHANGED <<matrices, profiles, profile_values, owner_aligners, shared>>
    /\ OutsideOwnership

\* builder.matrix(m): m moves into a new Arc, and the Arc the builder held is
\* dropped
BuilderMatrix ==
    /\ ~ReleasedTwice
    /\ owner_builder.live
    /\ HasFreshArc(matrix_arcs)
    /\ \E s \in DOMAIN matrices :
          /\ matrices[s].live
          /\ LET m == [variant |-> matrices[s].variant, ptr |-> matrices[s].ptr]
                 arcs == arc_new(matrix_arcs, m)
             IN  /\ tables' = matrix_arc_drop(mem, arcs, owner_builder.matrix).heap
                 /\ matrix_arcs' = arc_drop(arcs, owner_builder.matrix, NoMatrixArc.value)
                 /\ owner_builder' =
                       [owner_builder EXCEPT !.matrix = fresh_arc(matrix_arcs)]
          /\ matrices' = [matrices EXCEPT ![s] = NoMatrix]
    /\ UNCHANGED <<profiles, profile_values, profile_arcs, owner_aligners,
                   shared>>
    /\ OutsideOwnership

\* builder.profile(query_profile): the Profile moves into a new Arc, and the
\* Arc the builder held is dropped
BuilderProfile ==
    /\ ~ReleasedTwice
    /\ owner_builder.live
    /\ HasFreshArc(profile_arcs)
    /\ \E b \in ProfileBindings, again \in BOOLEAN :
          /\ profile_values[b].some
          /\ LET arcs == arc_new(profile_arcs, profile_values[b])
             IN  /\ profiles' = profile_arc_drop(profiles, arcs,
                                                 owner_builder.profile, again)
                 /\ profile_arcs' = arc_drop(arcs, owner_builder.profile, NoneProfile)
                 /\ owner_builder' =
                       [owner_builder EXCEPT !.profile = fresh_arc(profile_arcs)]
          /\ profile_values' = [profile_values EXCEPT ![b] = NoneProfile]
    /\ UNCHANGED <<tables, matrices, matrix_arcs, owner_aligners, shared>>
    /\ OutsideOwnership

\* let aligner = builder.build()?: the Aligner gets an Arc::clone of both Arcs;
\* a build that returns an error makes no Aligner and leaves the counts alone
BuilderBuild ==
    /\ ~ReleasedTwice
    /\ owner_builder.live
    /\ BagCardinality(owner_aligners) < MaxAligners
    /\ matrix_arcs' = arc_clone(matrix_arcs, owner_builder.matrix)
    /\ profile_arcs' = arc_clone(profile_arcs, owner_builder.profile)
    /\ owner_aligners' =
          owner_aligners (+) One(Owner(owner_builder.matrix, owner_builder.profile))
    /\ shared' = Marked(matrix_arcs', profile_arcs')
    /\ UNCHANGED <<tables, matrices, profiles, profile_values, owner_builder>>
    /\ OutsideOwnership

\* the builder goes out of scope: both of its Arcs are dropped
BuilderDrop ==
    /\ ~ReleasedTwice
    /\ owner_builder.live
    /\ \E again \in BOOLEAN :
          profiles' = profile_arc_drop(profiles, profile_arcs,
                                       owner_builder.profile, again)
    /\ tables' = matrix_arc_drop(mem, matrix_arcs, owner_builder.matrix).heap
    /\ matrix_arcs' = arc_drop(matrix_arcs, owner_builder.matrix, NoMatrixArc.value)
    /\ profile_arcs' = arc_drop(profile_arcs, owner_builder.profile, NoneProfile)
    /\ owner_builder' = DroppedOwner
    /\ UNCHANGED <<matrices, profile_values, owner_aligners, shared>>
    /\ OutsideOwnership

\* let aligner_2 = aligner.clone(), for another thread: #[derive(Clone)] on
\* Aligner clones both Arcs
AlignerClone ==
    /\ ~ReleasedTwice
    /\ BagCardinality(owner_aligners) < MaxAligners
    /\ \E a \in BagToSet(owner_aligners) :
          /\ matrix_arcs' = arc_clone(matrix_arcs, a.matrix)
          /\ profile_arcs' = arc_clone(profile_arcs, a.profile)
          /\ owner_aligners' = owner_aligners (+) One(Owner(a.matrix, a.profile))
    /\ shared' = Marked(matrix_arcs', profile_arcs')
    /\ UNCHANGED <<tables, matrices, profiles, profile_values, owner_builder>>
    /\ OutsideOwnership

\* the thread that holds an Aligner enters the alignment call its function
\* takes, align without a profile and align_with_profile with one: the backend
\* is handed **self.matrix or profile.inner
AlignBegin ==
    /\ ~ReleasedTwice
    /\ \E a \in BagToSet(owner_aligners) :
          /\ a.pc = "idle"
          /\ owner_aligners' =
                (owner_aligners (-) One(a)) (+) One([a EXCEPT !.pc = "in_call"])
    /\ UNCHANGED <<tables, matrices, profiles, profile_values, matrix_arcs,
                   profile_arcs, owner_builder, shared>>
    /\ OutsideOwnership

\* the alignment call returns: the backend has read the handle up to here
AlignEnd ==
    /\ ~ReleasedTwice
    /\ \E a \in BagToSet(owner_aligners) :
          /\ a.pc = "in_call"
          /\ owner_aligners' =
                (owner_aligners (-) One(a)) (+) One([a EXCEPT !.pc = "idle"])
    /\ UNCHANGED <<tables, matrices, profiles, profile_values, matrix_arcs,
                   profile_arcs, owner_builder, shared>>
    /\ OutsideOwnership

\* an Aligner that is in no call goes out of scope: both of its Arcs are dropped
AlignerDrop ==
    /\ ~ReleasedTwice
    /\ \E a \in BagToSet(owner_aligners), again \in BOOLEAN :
          /\ a.pc = "idle"
          /\ profiles' = profile_arc_drop(profiles, profile_arcs, a.profile, again)
          /\ tables' = matrix_arc_drop(mem, matrix_arcs, a.matrix).heap
          /\ matrix_arcs' = arc_drop(matrix_arcs, a.matrix, NoMatrixArc.value)
          /\ profile_arcs' = arc_drop(profile_arcs, a.profile, NoneProfile)
          /\ owner_aligners' = owner_aligners (-) One(a)
    /\ UNCHANGED <<matrices, profile_values, owner_builder, shared>>
    /\ OutsideOwnership

\* a client that makes and copies its matrices and profiles first, then hands
\* them to a builder, and builds, copies, uses and drops Aligners on several
\* threads
NextOwnership ==
    \/ LetFrom
    \/ LetClone
    \/ ProfileBuild
    \/ ProfileClone
    \/ ProfileDrop
    \/ AlignerNew
    \/ BuilderMatrix
    \/ BuilderProfile
    \/ BuilderBuild
    \/ BuilderDrop
    \/ AlignerClone
    \/ AlignBegin
    \/ AlignEnd
    \/ AlignerDrop

SpecOwnership == Init /\ [][NextOwnership]_vars

-----------------------------------------------------------------------------
(* The calls a client makes to set gap penalties and align *)

\* builder.gap_open_penalty(penalty)
GapOpenPenalty ==
    \E penalty \in PenaltyInputs :
        Setter(gap_open_penalty(builder, penalty)) /\ NotRecorded

\* builder.gap_extend_penalty(penalty)
GapExtendPenalty ==
    \E penalty \in PenaltyInputs :
        Setter(gap_extend_penalty(builder, penalty)) /\ NotRecorded

\* let alignment = builder.build()?.align(query, reference)?, or
\* builder.build()?.align_with_profile(reference)? when with_profile: open and
\* gap are the penalties the backend callable is called with
LetBuildAlignWith(with_profile) ==
    /\ HasFreshResult(results)
    /\ Len(alignments) < MaxResults
    /\ \E found \in BOOLEAN, null \in BOOLEAN :
          LET b == build(builder, found)
              r == IF with_profile THEN align_with_profile(b.aligner, FALSE, null)
                   ELSE align(b.aligner, FALSE, null)
          IN  IF b.kind # "Ok"
              THEN /\ ret' = [NoRet EXCEPT !.op = "build", !.kind = b.kind,
                                           !.fn_name = b.fn_name,
                                           !.tokens = b.tokens, !.width = b.width,
                                           !.lookup = b.lookup, !.symbol = b.symbol]
                   /\ UNCHANGED <<results, alignments>>
              ELSE /\ ret' = [NoRet EXCEPT !.op = IF with_profile
                                                  THEN "align_with_profile"
                                                  ELSE "align",
                                           !.kind = r.kind,
                                           !.fn_name = b.fn_name,
                                           !.backend = r.backend,
                                           !.callee = r.callee,
                                           !.on_profile = r.on_profile,
                                           !.null_result = r.null_result,
                                           !.open = r.open, !.gap = r.gap]
                   /\ Kept(r)
    /\ OutsideAlignment

\* builder.build()?.align(query, reference)?
LetBuildAlignPlain == LetBuildAlignWith(FALSE)

\* builder.build()?.align_with_profile(reference)?
LetBuildAlignProfile == LetBuildAlignWith(TRUE)

\* a client that sets gap penalties, a strategy and a profile on a builder and
\* aligns with the Aligner built from it, one Alignment at a time
NextPenalty ==
    \/ New
    \/ (ncalls < MaxCallsBeforeBuild /\ GapOpenPenalty)
    \/ (ncalls < MaxCallsBeforeBuild /\ GapExtendPenalty)
    \/ (builder.vec_strategy = "" /\ Striped)
    \/ (~builder.profile.some /\ SetProfile)
    \/ (alignments = <<>> /\ LetBuildAlignPlain)
    \/ (alignments = <<>> /\ LetBuildAlignProfile)
    \/ DropAlignment

SpecPenalty == Init /\ [][NextPenalty]_vars

-----------------------------------------------------------------------------
(* The calls a client makes to align DNA sequences *)

\* the alphabet of Matrix::default()
Dna == <<"A", "C", "G", "T">>

\* the table of Matrix::default()
MatrixDefault == parasail_matrix_create(Dna, 1, -1)

\* the query sequences: DNA of length 1 to MaxLen
Queries == UNION {[1 .. n -> {Dna[k] : k \in DOMAIN Dna}] : n \in 1 .. MaxLen}

\* a sequence read backwards
Reverse(seq) == [k \in 1 .. Len(seq) |-> seq[Len(seq) + 1 - k]]

\* the score the table pm over alphabet gives the symbols a and b
substitution(alphabet, pm, a, b) ==
    LET row == (CHOOSE k \in DOMAIN alphabet : alphabet[k] = a) - 1
        col == (CHOOSE k \in DOMAIN alphabet : alphabet[k] = b) - 1
    IN  pm.cells[row * pm.size + col + 1]

Max(x, y) == IF x >= y THEN x ELSE y

\* the cell (i, j) of the backend's global alignment of s1 and s2: h the best
\* score, e the best ending in a gap in s1, f the best ending in a gap in s2;
\* a gap of k symbols costs open + (k - 1) * gap
RECURSIVE nw_cell(_, _, _, _, _, _, _, _)
nw_cell(i, j, s1, s2, open, gap, alphabet, pm) ==
    LET none == 0 - 1073741824
    IN  IF i = 0 /\ j = 0 THEN [h |-> 0, e |-> none, f |-> none]
        ELSE IF i = 0
        THEN [h |-> 0 - open - (j - 1) * gap, e |-> 0 - open - (j - 1) * gap,
              f |-> none]
        ELSE IF j = 0
        THEN [h |-> 0 - open - (i - 1) * gap, e |-> none,
              f |-> 0 - open - (i - 1) * gap]
        ELSE LET left == nw_cell(i, j - 1, s1, s2, open, gap, alphabet, pm)
                 up   == nw_cell(i - 1, j, s1, s2, open, gap, alphabet, pm)
                 both == nw_cell(i - 1, j - 1, s1, s2, open, gap, alphabet, pm)
                 e    == Max(left.e - gap, left.h - open)
                 f    == Max(up.f - gap, up.h - open)
             IN  [ h |-> Max(both.h + substitution(alphabet, pm, s1[i], s2[j]),
                             Max(e, f)),
                   e |-> e, f |-> f ]

\* parasail_nw(s1, s1Len, s2, s2Len, open, gap, matrix): the fields of the
\* result it returns
parasail_nw(s1, s1Len, s2, s2Len, open, gap, alphabet, pm) ==
    [ score |-> nw_cell(s1Len, s2Len, s1, s2, open, gap, alphabet, pm).h,
      end_query |-> s1Len - 1,
      end_ref |-> s2Len - 1 ]

\* Aligner::align with the lengths of query and reference exchanged in the call
align_dna_swapped(self, query, reference) ==
    parasail_nw(query, Len(reference) - 1, reference, Len(query),
                as_i32(self.gap_open_penalty), as_i32(self.gap_extend_penalty),
                Dna, MatrixDefault)

\* Aligner::align of DNA sequences by the callable parasail_nw on
\* Matrix::default(): what the backend writes in the result
align_dna(self, query, reference) ==
    parasail_nw(query, Len(query), reference, Len(reference),
                as_i32(self.gap_open_penalty), as_i32(self.gap_extend_penalty),
                Dna, MatrixDefault)

\* let alignment = Aligner::new().build()?.align(query, reference)?
LetAlignDna(query, reference) ==
    /\ HasFreshResult(results)
    /\ Len(alignments) < MaxResults
    /\ \E null \in BOOLEAN :
          LET b == build(DefaultBuilder, TRUE)
              r == align(b.aligner, FALSE, null)
              w == wrap(results, r)
              a == w.alignment.inner
              written == align_dna(b.aligner, query, reference)
          IN  /\ ret' = [NoRet EXCEPT !.op = "align", !.kind = r.kind,
                                      !.fn_name = b.fn_name,
                                      !.backend = r.backend,
                                      !.callee = r.callee,
                                      !.null_result = r.null_result,
                                      !.open = r.open, !.gap = r.gap,
                                      !.query = query, !.reference = reference]
              /\ results' =
                    IF w.made /\ ~a.null
                    THEN [w.res EXCEPT ![a.addr].score = written.score,
                                       ![a.addr].end_query = written.end_query,
                                       ![a.addr].end_ref = written.end_ref]
                    ELSE w.res
              /\ alignments' = IF w.made THEN Append(alignments, w.alignment)
                               ELSE alignments
    /\ OutsideAlignment

\* a query aligned with itself
AlignIdentical == \E query \in Queries : LetAlignDna(query, query)

\* a query aligned with itself read backwards
AlignReversed == \E query \in Queries : LetAlignDna(query, Reverse(query))

\* a client that aligns DNA sequences with the default Aligner, reads the
\* Alignment and drops it before it aligns again
NextIdentity ==
    \/ (alignments = <<>> /\ AlignIdentical)
    \/ (alignments = <<>> /\ AlignReversed)
    \/ (ret.op = "align" /\ GetPlain)
    \/ DropAlignment

SpecIdentity == Init /\ [][NextIdentity]_vars

-----------------------------------------------------------------------------
(* The calls a client makes on the AlignerBuilder of src/lib.rs *)

\* what the calls on the AlignerBuilder of src/lib.rs leave alone
OutsideLib ==
    UNCHANGED <<builder_vars, matrix_vars, result_vars, owner_vars, creator_vars>>

\* a call named name on the builder that leaves it as next
LibSetter(name, next) ==
    /\ Len(lib_calls) < MaxSetterCalls
    /\ lib_builder' = next
    /\ lib_calls' = Append(lib_calls, name)
    /\ lib_ret' = NoName
    /\ OutsideLib

\* builder.use_stats()
LibUseStats == LibSetter("use_stats", lib_use_stats(lib_builder))

\* builder.use_table()
UseTable == LibSetter("use_table", use_table(lib_builder))

\* builder.use_last_rowcol()
UseLastRowcol == LibSetter("use_last_rowcol", use_last_rowcol(lib_builder))

\* builder.use_trace()
UseTrace == LibSetter("use_trace", use_trace(lib_builder))

\* the get_parasail_fn_name() call made by builder.build()
LibGetParasailFnName ==
    /\ lib_ret' = lib_get_parasail_fn_name(lib_builder)
    /\ UNCHANGED <<lib_builder, lib_calls>>
    /\ OutsideLib

\* a client that asks a builder of src/lib.rs for statistics, tables and
\* traceback and has the identifier resolved
NextLib ==
    \/ LibUseStats
    \/ UseTable
    \/ UseLastRowcol
    \/ UseTrace
    \/ LibGetParasailFnName

SpecLib == Init /\ [][NextLib]_vars

-----------------------------------------------------------------------------
(* The calls a client makes on a ProfileBuilder *)

\* what the creator layer leaves alone
OutsideCreator ==
    UNCHANGED <<builder_vars, matrix_vars, result_vars, matrix_arcs,
                profile_arcs, owner_builder, owner_aligners, shared, lib_vars>>

\* let mut profile_builder = Profile::new(query, &matrix)
ProfileNew ==
    /\ ~ReleasedTwice
    /\ \E s \in DOMAIN matrices :
          /\ matrices[s].live
          /\ profile_builder' = ProfileBuilder(s)
    /\ pret' = [NoPret EXCEPT !.op = "new"]
    /\ UNCHANGED <<profiles, profile_values>>
    /\ OutsideCreator

\* a setter call on the ProfileBuilder that leaves it as next
ProfileSetter(next) ==
    /\ ~ReleasedTwice
    /\ profile_builder.live
    /\ profile_builder' = next
    /\ pret' = [NoPret EXCEPT !.op = "setter"]
    /\ UNCHANGED <<profiles, profile_values>>
    /\ OutsideCreator

\* profile_builder.use_stats()
UseStats == ProfileSetter(profile_use_stats(profile_builder))

\* profile_builder.solution_width(w)
ProfileSolutionWidth ==
    \E w \in WidthInputs :
        ProfileSetter(profile_solution_width(profile_builder, w))

\* profile_builder.instruction_set(is)
ProfileInstructionSet ==
    \E is \in InstructionSet :
        ProfileSetter(profile_instruction_set(profile_builder, is))

\* let query_profile = profile_builder.build()?: nul says the query has an
\* interior NUL byte, null that the creator returned a null pointer
ProfileBuilderBuild ==
    /\ ~ReleasedTwice
    /\ profile_builder.live
    /\ HasFreshProfile(profiles)
    /\ \E b \in ProfileBindings, nul \in BOOLEAN, null \in BOOLEAN :
          /\ ~profile_values[b].some
          /\ LET self == profile_builder
                 looked == profile_creator_lookup(self.use_stats,
                                                  self.instruction_set,
                                                  self.solution_width)
                 matrix == matrices[self.matrix].ptr
                 r == profile_build(profiles, self.use_stats, ~null)
             IN  IF looked.kind # "Ok"
                 THEN /\ pret' = [NoPret EXCEPT !.op = "build",
                                                !.kind = looked.kind,
                                                !.failed = looked.failed]
                      /\ UNCHANGED <<profiles, profile_values>>
                 ELSE IF nul
                 THEN /\ pret' = [NoPret EXCEPT !.op = "build",
                                                !.kind = "NullError",
                                                !.creator = looked.creator]
                      /\ UNCHANGED <<profiles, profile_values>>
                 ELSE IF null
                 THEN /\ pret' = [NoPret EXCEPT !.op = "build",
                                                !.kind = "NullProfile",
                                                !.creator = looked.creator]
                      /\ UNCHANGED <<profiles, profile_values>>
                 ELSE /\ pret' = [NoPret EXCEPT !.op = "build", !.kind = "Ok",
                                                !.creator = looked.creator]
                      /\ profiles' =
                            [r.profs EXCEPT ![r.profile.inner].built =
                                [ use_stats |-> self.use_stats,
                                  creator |-> looked.creator,
                                  ptr |-> matrix,
                                  cells |-> deref(mem, matrix).cells ]]
                      /\ profile_values' = [profile_values EXCEPT ![b] = r.profile]
    /\ UNCHANGED profile_builder
    /\ OutsideCreator

\* the ProfileBuilder goes out of scope: the borrow of the Matrix ends
ProfileBuilderDrop ==
    /\ ~ReleasedTwice
    /\ profile_builder.live
    /\ profile_builder' = NoProfileBuilder
    /\ pret' = [NoPret EXCEPT !.op = "drop"]
    /\ UNCHANGED <<profiles, profile_values>>
    /\ OutsideCreator

\* a client that makes a Matrix, makes one ProfileBuilder on it, sets its
\* width and instruction set before it first builds, builds Profiles, and
\* drops them after the ProfileBuilder
NextCreator ==
    \/ LetFrom
    \/ (pret.op = "none" /\ ProfileNew)
    \/ UseStats
    \/ (pret.op \in {"new", "setter"} /\ ProfileSolutionWidth)
    \/ (pret.op \in {"new", "setter"} /\ ProfileInstructionSet)
    \/ ProfileBuilderBuild
    \/ ProfileBuilderDrop
    \/ (~profile_builder.live /\ UNCHANGED creator_vars /\ ProfileDrop)

SpecCreator == Init /\ [][NextCreator]_vars

-----------------------------------------------------------------------------
(* The calls a client makes on a Matrix, on the Profile built from it and on
   the Aligner that aligns with the Profile *)

\* let matrix = Matrix::create(b"AC", 1, -1)?
LetCreate ==
    /\ ~ReleasedTwice
    /\ NoOwners
    /\ HasFreeSlot
    /\ HasFresh(tables)
    /\ LET r == create(mem, <<"A", "C">>, 1, -1, FALSE, FALSE)
       IN  /\ tables' = r.mem.heap
           /\ matrices' = Bound(r)
    /\ UNCHANGED <<owner_vars, creator_vars, lib_vars>>
    /\ UNCHANGED <<builder_vars, result_vars, static_table, nedits, mret>>

\* no Matrix has been made yet
NoMatrices == \A s \in DOMAIN matrices : ~matrices[s].live

\* the ProfileBuilder, which borrowed the Matrix, has been made and is gone
Unborrowed == pret.op # "none" /\ ~profile_builder.live

\* a client that makes one Matrix, builds a Profile from it with a
\* ProfileBuilder, edits and drops the Matrix once the ProfileBuilder is gone,
\* and binds the Profile to a builder whose Aligner aligns with it
NextProfileMatrix ==
    \/ (NoMatrices /\ pret.op = "none" /\ LetCreate)
    \/ (NoMatrices /\ pret.op = "none" /\ LetFrom)
    \/ (pret.op = "none" /\ ProfileNew)
    \/ ProfileBuilderBuild
    \/ ProfileBuilderDrop
    \/ (Unborrowed /\ SetValue)
    \/ (Unborrowed /\ DropMatrix)
    \/ (Unborrowed /\ AlignerNew)
    \/ BuilderProfile
    \/ BuilderBuild
    \/ AlignBegin
    \/ AlignEnd

SpecProfileMatrix == Init /\ [][NextProfileMatrix]_vars

-----------------------------------------------------------------------------
(* Properties of the symbol resolver *)

\* ret holds the Result of get_parasail_fn_name on the builder as it is now
Resolved == ret.op = "get_parasail_fn_name"

\* ret holds an identifier resolved from the builder as it is now
ResolvedOk == Resolved /\ ret.kind = "Ok"

\* a strategy is set and the stored width is none of 8, 16, 32, 64
WidthRejected ==
    /\ builder.vec_strategy # ""
    /\ builder.solution_width.some
    /\ builder.solution_width.val \notin {8, 16, 32, 64}

\* the width token of C1 and C10: nothing without a strategy, the saturating
\* marker for an unset width, "_" and the width otherwise
ExpectedWidthToken ==
    IF builder.vec_strategy = "" THEN ""
    ELSE IF ~builder.solution_width.some THEN "_sat"
    ELSE "_" \o ToString(builder.solution_width.val)

\* the identifier C1 describes, except for its last token
ExpectedPrefix ==
    "parasail_" \o builder.mode
                \o builder.allow_query_gaps
                \o builder.allow_ref_gaps
                \o builder.use_stats
                \o builder.use_table
                \o builder.use_trace
                \o builder.vec_strategy
                \o (IF builder.profile.some THEN "_profile" ELSE "")
                \o (IF builder.vec_strategy = "" THEN "" ELSE builder.instruction_set)

\* C1 as stated: in every configuration the setters reach, get_parasail_fn_name
\* returns the identifier "parasail_" + mode + query gap + reference gap + stats
\* + table + trace + strategy + profile + instruction set + width, where an
\* option that was never set contributes the empty string.
C1_EveryConfigurationResolves ==
    Resolved =>
        /\ ret.kind = "Ok"
        /\ ret.fn_name =
              ExpectedPrefix \o (IF builder.solution_width.some
                                 THEN ExpectedWidthToken ELSE "")

\* C1 amended: get_parasail_fn_name returns InvalidSolutionWidth{w} when a
\* strategy is set and the stored width w is none of 8, 16, 32, 64; in every
\* other configuration it returns the ten tokens in the fixed order behind
\* "parasail_", a never-set option contributing the empty string except the
\* width, which contributes "_sat" once a strategy is set; the default builder
\* resolves to "parasail_nw".
C1_IdentifierFormat ==
    Resolved =>
        IF WidthRejected
        THEN /\ ret.kind = "InvalidSolutionWidth"
             /\ ret.width = builder.solution_width.val
        ELSE /\ ret.kind = "Ok"
             /\ ret.fn_name = ExpectedPrefix \o ExpectedWidthToken
             /\ ret.tokens[1] \in {"nw", "sg", "sw"}
             /\ ret.tokens[8] = "_profile" <=> builder.profile.some
             /\ builder = DefaultBuilder => ret.fn_name = "parasail_nw"

\* C1 witness: an identifier resolved with five tokens present
C1_Witness ==
    /\ ResolvedOk
    /\ ret.fn_name = "parasail_sw_table_trace_striped_sat"

-----------------------------------------------------------------------------
(* Properties of build() and of the two call shapes *)

\* C2: when the consulted symbol table has no entry for the resolved
\* identifier, build() returns FunctionLookupFailed carrying that identifier;
\* every Aligner that build() handed out holds a present callable, and no
\* align() or align_with_profile() call reaches an absent one.
C2_LookupFailureReportedAtBuild ==
    /\ (ret.op = "build" /\ ret.symbol = "absent") =>
          /\ ret.kind = "FunctionLookupFailed"
          /\ ret.fn_name = ExpectedPrefix \o ExpectedWidthToken
    /\ (ret.op = "build" /\ ret.kind = "Ok") => ret.symbol = "found"
    /\ \A i \in 1..Len(aligners) : aligners[i].parasail_fn.present
    /\ ret.op \in {"align", "align_with_profile"} => ret.kind # "panic"

\* C2 witness: a lookup failure reported by build() while an Aligner built
\* earlier from the same builder is alive
C2_Witness ==
    /\ ret.op = "build"
    /\ ret.kind = "FunctionLookupFailed"
    /\ ret.fn_name = "parasail_nw_scan_profile_sat"
    /\ Len(aligners) > 0

\* C3: an Aligner holds the profile-shape callable exactly when it has a
\* Profile bound, build() having consulted the symbol table of that shape; the
\* backend is only ever invoked in the shape the receiver stores, align() on a
\* profile-shape Aligner and align_with_profile() on a direct-shape Aligner
\* returning an error without a backend call.
C3_ShapeMatchesProfile ==
    /\ \A i \in 1..Len(aligners) :
          /\ aligners[i].parasail_fn.shape \in {"Function", "PFunction"}
          /\ aligners[i].parasail_fn.shape = "PFunction" <=> aligners[i].profile.some
    /\ (ret.op = "build" /\ ret.lookup # "none") =>
          ret.lookup = IF builder.profile.some THEN "pfunction" ELSE "function"
    /\ ret.backend = "direct" =>
          ret.op = "align" /\ ret.callee = "Function" /\ ~ret.on_profile
    /\ ret.backend = "profile" =>
          ret.op = "align_with_profile" /\ ret.callee = "PFunction" /\ ret.on_profile
    /\ (ret.op = "align" /\ ret.on_profile) =>
          ret.backend = "none" /\ ret.kind \in {"IncompatibleAlignerFn", "NulError"}
    /\ (ret.op = "align_with_profile" /\ ~ret.on_profile) =>
          ret.backend = "none" /\ ret.kind \in {"IncompatibleAlignerFn", "NulError"}

\* C3 witness: align() refused on a profile-shape Aligner while a direct-shape
\* Aligner built from the same builder is alive too
C3_Witness ==
    /\ ret.op = "align"
    /\ ret.kind = "IncompatibleAlignerFn"
    /\ ret.on_profile
    /\ \E i \in 1..Len(aligners) : aligners[i].parasail_fn.shape = "Function"

-----------------------------------------------------------------------------
(* Properties of the builder's precedence rules *)

\* C4: with a Profile bound, the stats token of the resolved identifier is
\* "_stats" exactly when the Profile's use_stats flag is true.
C4_ProfileFlagDecidesStats ==
    (ResolvedOk /\ builder.profile.some) =>
        (ret.tokens[4] = "_stats" <=> builder.profile.use_stats)

\* the setter names recorded in the table-mode history
TableCalled(name) == \E i \in 1..Len(table_calls) : table_calls[i] = name

\* C5: once return_last_rowcol() has been called the table mode is "_rowcol"
\* in every later builder state and in the identifier resolved from it,
\* whatever return_table() calls come before or after; the table token is
\* "_table" only if return_table() was called and return_last_rowcol() never.
C5_RowcolAlwaysWins ==
    /\ TableCalled("return_last_rowcol") => builder.use_table = "_rowcol"
    /\ builder.use_table = "_table" =>
          TableCalled("return_table") /\ ~TableCalled("return_last_rowcol")
    /\ ResolvedOk => ret.tokens[5] = builder.use_table

\* C5 witness: return_table() called after return_last_rowcol(), and the
\* identifier resolved
C5_Witness ==
    /\ ResolvedOk
    /\ table_calls = <<"return_last_rowcol", "return_table">>
    /\ ret.tokens[5] = "_rowcol"

\* C6: in every builder state the stats token and the trace token are not
\* both non-empty.
C6_StatsTraceExclusive ==
    ~(builder.use_stats # "" /\ builder.use_trace # "")

\* C7: right after enable_traceback() traceback is active and the stats token
\* and the table token are both empty.
C7_TracebackClearsStatsAndTable ==
    [][EnableTraceback =>
          /\ builder'.use_trace = "_trace"
          /\ builder'.use_stats = ""
          /\ builder'.use_table = ""]_vars

\* the builder with both gap allowances back at their default
WithoutGaps(self) == [self EXCEPT !.allow_query_gaps = "", !.allow_ref_gaps = ""]

\* C8: in SemiGlobal mode a builder with allow_query_gaps(All) and
\* allow_ref_gaps(All) resolves to the identifier of the same builder with no
\* gap allowance set.
C8_AllowAllCollapses ==
    ( /\ ResolvedOk
      /\ builder.mode = "sg"
      /\ builder.allow_query_gaps = "_qx"
      /\ builder.allow_ref_gaps = "_dx" ) =>
        ret.fn_name = get_parasail_fn_name(WithoutGaps(builder)).fn_name

\* C9: an identifier resolved in Global or Local mode carries no query-gap and
\* no reference-gap token.
C9_GapTokensOnlyInSemiGlobal ==
    (ResolvedOk /\ builder.mode \in {"nw", "sw"}) =>
        /\ ret.tokens[2] = ""
        /\ ret.tokens[3] = ""
        /\ ret.fn_name = get_parasail_fn_name(WithoutGaps(builder)).fn_name

\* the token of the instruction set set last, empty if none was
LastInstructionSetToken ==
    CASE last_instruction_set = "none"    -> ""
      [] last_instruction_set = "SSE2"    -> "_sse2_128"
      [] last_instruction_set = "SSE41"   -> "_sse41_128"
      [] last_instruction_set = "AVX2"    -> "_avx2_256"
      [] last_instruction_set = "AltiVec" -> "_altivec_128"
      [] last_instruction_set = "Neon"    -> "_neon_128"

\* C10: without a vectorization strategy the identifier ends at the profile
\* token, whatever width and instruction set were set; with a strategy the
\* width token is "_sat" for an unset width and "_" w for w in {8, 16, 32, 64},
\* and the instruction-set token is that of the instruction set set last.
C10_StrategyGate ==
    ResolvedOk =>
        /\ builder.vec_strategy = "" =>
              /\ ret.tokens[9] = ""
              /\ ret.tokens[10] = ""
              /\ ret.fn_name = format([ret.tokens EXCEPT ![9] = "", ![10] = ""])
        /\ (builder.vec_strategy # "" /\ ~builder.solution_width.some) =>
              /\ ret.tokens[10] = "_sat"
              /\ ret.tokens[9] = LastInstructionSetToken
        /\ (builder.vec_strategy # "" /\ builder.solution_width.some) =>
              /\ builder.solution_width.val \in {8, 16, 32, 64}
              /\ ret.tokens[10] = "_" \o ToString(builder.solution_width.val)
              /\ ret.tokens[9] = LastInstructionSetToken

\* C10 witness: width and instruction set both set, no strategy, and the
\* identifier resolved to the bare mode
C10_Witness ==
    /\ ResolvedOk
    /\ builder.vec_strategy = ""
    /\ builder.solution_width = SomeWidth(8)
    /\ last_instruction_set = "Neon"
    /\ ret.fn_name = "parasail_nw"

-----------------------------------------------------------------------------
(* Properties of the errors of build() *)

\* C11: solution_width never reports anything when it is called, whatever the
\* value; build() returns InvalidSolutionWidth exactly when a strategy is set
\* and the stored width is none of 8, 16, 32, 64, and the error carries the
\* stored width; without a strategy a stored width of any value gives no such
\* error
C11_WidthCheckedOnlyAtBuild ==
    /\ ret.op = "setter" => ret.kind = "none"
    /\ ret.op = "build" =>
          /\ (ret.kind = "InvalidSolutionWidth") <=> WidthRejected
          /\ ret.kind = "InvalidSolutionWidth" =>
                ret.width = builder.solution_width.val
          /\ builder.vec_strategy = "" => ret.kind # "InvalidSolutionWidth"

\* a build() that rejected the width 7 stored under a strategy
C11_Witness ==
    /\ ret.op = "build"
    /\ ret.kind = "InvalidSolutionWidth"
    /\ ret.width = 7
    /\ builder.vec_strategy # ""
    /\ builder.solution_width = SomeWidth(7)

\* C12: build() on a builder with a Profile and a strategy other than scan or
\* striped returns IncompatibleProfileConfig, or InvalidSolutionWidth when the
\* width is rejected too; it consults no symbol table, hands out no Aligner
\* and does not panic; with a Profile and scan or striped it never returns
\* IncompatibleProfileConfig
C12_ProfileNeedsScanOrStriped ==
    [][(Build /\ builder.profile.some) =>
          IF builder.vec_strategy \in {"_scan", "_striped"}
          THEN ret'.kind # "IncompatibleProfileConfig"
          ELSE /\ ret'.kind \in {"IncompatibleProfileConfig", "InvalidSolutionWidth"}
               /\ (ret'.kind = "InvalidSolutionWidth") <=> WidthRejected
               /\ ret'.lookup = "none"
               /\ ret'.symbol = "none"
               /\ aligners' = aligners]_vars

\* a build() refused for a Profile bound under the diag strategy
C12_Witness ==
    /\ ret.op = "build"
    /\ ret.kind = "IncompatibleProfileConfig"
    /\ builder.profile.some
    /\ builder.vec_strategy = "_diag"
    /\ ret.lookup = "none"

-----------------------------------------------------------------------------
(* Properties of Matrix *)

\* C15: every table the backend allocated on the heap for a Matrix is freed
\* exactly once, when the Matrix that owns it is dropped or replaced: a table
\* not yet freed is still held by a live Matrix, a freed one is held by none,
\* none is freed twice, and the static built-in table is never freed
C15_TablesFreedExactlyOnce ==
    /\ \A a \in DOMAIN tables :
          /\ tables[a].frees <= 1
          /\ tables[a].state = "live" =>
                \E s \in Bindings : matrices[s].live /\ matrices[s].ptr = HeapPtr(a)
          /\ tables[a].state = "freed" =>
                \A s \in Bindings : matrices[s].live => matrices[s].ptr # HeapPtr(a)
    /\ static_table.state = "static"
    /\ static_table.frees = 0

\* C17: set_value copies the table exactly when the Matrix is a Builtin, the
\* copy is on the heap, and after a successful set_value the Matrix is a
\* Custom, so that the next set_value on it edits in place
C17_SetValueMakesCustom ==
    mret.op = "set_value" =>
        /\ mret.copied <=> mret.was = "Builtin"
        /\ mret.copied => matrices[mret.slot].ptr.region = "heap"
        /\ mret.kind = "Ok" => matrices[mret.slot].variant = "Custom"

\* C18: no call writes to the static table of a built-in matrix, and every
\* get_value on a Matrix obtained from Matrix::from returns the same after any
\* call made on another Matrix, a clone of it or a second Matrix of the same
\* name included
C18_BuiltinTableNeverWritten ==
    [][/\ static_table' = static_table
       /\ \A s \in Bindings :
             (matrices[s].live /\ matrices[s].ptr = StaticPtr
                               /\ matrices'[s] = matrices[s]) =>
                 \A rc \in Indices :
                     get_value(Mem(tables', static_table'), matrices'[s], rc[1], rc[2])
                         = get_value(mem, matrices[s], rc[1], rc[2])]_vars

\* m is a Matrix from Matrix::from, m2 a Builtin with a table of its own (a
\* clone of m, or a second Matrix of the same name that was edited), and a
\* set_value on m2 has just written 100 to its cell (0, 0)
C18_Witness ==
    /\ matrices["m"].live
    /\ matrices["m"].ptr = StaticPtr
    /\ matrices["m2"].live
    /\ matrices["m2"].variant = "Builtin"
    /\ matrices["m2"].ptr.region = "heap"
    /\ mret.op = "set_value"
    /\ mret.slot = "m2"
    /\ mret.kind = "Ok"
    /\ deref(mem, matrices["m2"].ptr).cells[1] = 100
    /\ static_table = Blosum62

\* C19: after Matrix::create(alphabet, match, mismatch), get_value(i, i) is
\* match and get_value(i, j) is mismatch for all indices i # j of the alphabet
C19_CreateRoundTrip ==
    (mret.op = "create" /\ mret.kind = "Ok") =>
        LET n == Len(mret.alphabet)
        IN  \A i \in 0 .. n - 1, j \in 0 .. n - 1 :
                get_value(mem, matrices[mret.slot], i, j) =
                    [ kind |-> "Ok",
                      value |-> IF i = j THEN mret.match_score
                                ELSE mret.mismatch_score ]

\* C20: after a successful set_value(row, col, v), get_value(row, col) is v and
\* get_value at every other valid index pair is what it was before the call
C20_SetThenGet ==
    [][(mret'.op = "set_value" /\ mret'.kind = "Ok") =>
          \A rc \in Indices :
              get_value(mem, matrices[mret'.slot], rc[1], rc[2]).kind = "Ok" =>
                  get_value(Mem(tables', static_table'), matrices'[mret'.slot],
                            rc[1], rc[2]).value
                      = IF rc = <<mret'.row, mret'.col>>
                        THEN mret'.arg
                        ELSE get_value(mem, matrices[mret'.slot], rc[1], rc[2]).value]_vars

-----------------------------------------------------------------------------
(* Properties of Alignment *)

\* the Alignment values that wrap the result handle a
Owners(a) == {i \in 1 .. Len(alignments) : alignments[i].inner = ResultPtr(a)}

\* C16: every result handle the backend returned to align or
\* align_with_profile is owned by exactly one Alignment until it is released;
\* it is released by parasail_result_free once, when that Alignment is
\* dropped, never twice, and no accessor reaches it after its release
C16_ResultReleasedOnceOnDrop ==
    \A a \in DOMAIN results :
        /\ results[a].frees <= 1
        /\ results[a].stale_reads = 0
        /\ results[a].state = "unallocated" => Owners(a) = {} /\ results[a].frees = 0
        /\ results[a].state = "live" => Cardinality(Owners(a)) = 1 /\ results[a].frees = 0
        /\ results[a].state = "freed" => Owners(a) = {} /\ results[a].frees = 1

\* one result handle was released by the drop of its Alignment while the
\* Alignment of another is alive and has just been read
C16_Witness ==
    /\ \E a \in DOMAIN results : results[a].state = "freed" /\ results[a].frees = 1
    /\ \E a \in DOMAIN results : results[a].state = "live" /\ Cardinality(Owners(a)) = 1
    /\ ret.op = "get_score"
    /\ ret.kind = "Ok"

-----------------------------------------------------------------------------
(* Profile handles, and handles shared through an Arc *)

\* C13: whatever Profiles are built, cloned, moved into a builder and its
\* Aligners, and dropped, the release function of a profile handle is called
\* on that handle at most once
C13_ProfileReleasedAtMostOnce ==
    \A h \in DOMAIN profiles : profiles[h].frees <= 1

\* some Arc in use holds the Matrix of table a
TableHeld(a) ==
    \E id \in DOMAIN matrix_arcs :
        matrix_arcs[id].strong > 0 /\ matrix_arcs[id].value.ptr = HeapPtr(a)

\* some Arc in use holds a Profile of handle h
ProfileHeld(h) ==
    \E id \in DOMAIN profile_arcs :
        /\ profile_arcs[id].strong > 0
        /\ profile_arcs[id].value.some
        /\ profile_arcs[id].value.inner = h

\* C14: a matrix table or profile handle that a builder and Aligners shared
\* is never released more than once, is not released while an Arc that some
\* owner holds still leads to it (so that no owner, in an alignment call or
\* about to start one, hands the backend a released handle), and is released
\* once the last owner is dropped
C14_SharedHandleReleasedOnceAfterLastOwner ==
    /\ \A a \in shared.tables :
          /\ tables[a].frees <= 1
          /\ TableHeld(a) => tables[a].state = "live"
          /\ ~TableHeld(a) => tables[a].state = "freed"
    /\ \A h \in shared.profiles :
          /\ profiles[h].frees <= 1
          /\ ProfileHeld(h) => profiles[h].state = "live"
          /\ ~ProfileHeld(h) => profiles[h].state = "freed"

-----------------------------------------------------------------------------
(* Index validation of Matrix *)

\* row and col lie in [0, size - 2], size being the dimension the backend
\* reports for the table
InRange(size, row, col) ==
    /\ 0 <= row /\ row <= size - 2
    /\ 0 <= col /\ col <= size - 2

\* C21: set_value and get_value return InvalidIndex exactly when row or col
\* lies outside [0, size - 2], and a call that returns InvalidIndex has left
\* every table and the Matrix it was made on as they were
C21_InvalidIndexTouchesNothing ==
    [][(mret'.op \in {"set_value", "get_value"}) =>
          LET size == deref(mem, matrices[mret'.slot].ptr).size
              inside == InRange(size, mret'.row, mret'.col)
          IN  /\ (mret'.kind = "InvalidIndex") <=> ~inside
              /\ ~inside => /\ tables' = tables
                            /\ static_table' = static_table
                            /\ matrices' = matrices]_vars

-----------------------------------------------------------------------------
(* Null handles *)

\* C22: an alignment call in which the backend returned a null handle returns
\* an error, and no Alignment alive wraps a null handle
C22_NoAlignmentAroundNull ==
    /\ (ret.op \in {"align", "align_with_profile"} /\ ret.null_result) =>
          ret.kind # "Ok"
    /\ \A i \in 1 .. Len(alignments) : ~alignments[i].inner.null

\* C23: get_matches, get_similar and get_length return Ok exactly when the
\* stats flag is set in the result of the Alignment they are called on; when it
\* is not they return the NoStatsReturned error and call no backend getter, the
\* failed call changes neither the result nor the Alignment, and get_score,
\* get_end_query and get_end_ref still answer on it
C23_StatsAccessorsGated ==
    [][\A i \in 1 .. Len(alignments), name \in StatsAccessors :
          Accessor(name, i) =>
              LET self == alignments[i]
              IN  /\ (ret'.kind = "Ok") <=> is_stats(results, self)
                  /\ ~is_stats(results, self) =>
                        /\ ret'.kind = "NoStatsReturned"
                        /\ ret'.backend = "none"
                        /\ results' = results
                        /\ alignments' = alignments
                        /\ \A plain \in PlainAccessors :
                              accessor(plain, results', alignments'[i]).kind = "Ok"]_vars

\* the same on the Alignments whose handle is not null
C23_OnResults ==
    [][\A i \in 1 .. Len(alignments), name \in StatsAccessors :
          (Accessor(name, i) /\ ~alignments[i].inner.null) =>
              LET self == alignments[i]
              IN  /\ (ret'.kind = "Ok") <=> is_stats(results, self)
                  /\ ~is_stats(results, self) =>
                        /\ ret'.kind = "NoStatsReturned"
                        /\ ret'.backend = "none"
                        /\ results' = results
                        /\ alignments' = alignments
                        /\ \A plain \in PlainAccessors :
                              accessor(plain, results', alignments'[i]).kind = "Ok"]_vars

\* the accessors of the table, the row and column, and the trace groups
TableGroup == {"get_score_table", "get_matches_table", "get_similar_table",
               "get_length_table"}
RowColGroup == {"get_score_row", "get_matches_row", "get_similar_row",
                "get_length_row", "get_score_col", "get_matches_col",
                "get_similar_col", "get_length_col"}
TraceGroup == {"get_trace_table", "get_trace_ins_table", "get_trace_del_table"}

\* the capability predicate that goes with the accessor name, and its error
capable(name, res, self) ==
    IF name \in TableGroup THEN is_table(res, self)
    ELSE IF name \in RowColGroup THEN is_rowcol(res, self)
    ELSE is_trace(res, self)
incapable(name) ==
    IF name \in TableGroup THEN "NoTable"
    ELSE IF name \in RowColGroup THEN "NoRowCol"
    ELSE "NoTrace"

\* C24: an accessor of the table, row and column or trace group called on an
\* Alignment whose result does not have the capability returns the NoTable,
\* NoRowCol or NoTrace error, calls no backend getter, and never panics
C24_TableAccessorsGated ==
    [][\A i \in 1 .. Len(alignments),
          name \in TableGroup \cup RowColGroup \cup TraceGroup :
          Accessor(name, i) =>
              /\ ret'.kind # "panic"
              /\ ~capable(name, results, alignments[i]) =>
                    /\ ret'.kind = incapable(name)
                    /\ ret'.backend = "none"]_vars

\* the identifier spelled by tokens contains "_trace" and no "_stats"
TraceNoStats(tokens) == tokens[6] = "_trace" /\ tokens[4] # "_stats"

\* C25: enable_traceback() called on a builder that return_stats() was called
\* on leaves a configuration whose identifier contains "_trace" and no
\* "_stats", and get_matches() on the Alignment that align returns from an
\* Aligner built with such an identifier fails with NoStatsReturned
C25_StatsThenTraceback ==
    [][/\ (EnableTraceback /\ builder.use_stats = "_stats") =>
              TraceNoStats(build(builder', TRUE).tokens)
       /\ (LetBuildAlign /\ alignments' # alignments /\ TraceNoStats(ret'.tokens)) =>
              get_matches(results', alignments'[Len(alignments')]).kind =
                  "NoStatsReturned"]_vars

\* the same on the Alignments whose handle is not null
C25_OnResults ==
    [][/\ (EnableTraceback /\ builder.use_stats = "_stats") =>
              TraceNoStats(build(builder', TRUE).tokens)
       /\ (/\ LetBuildAlign /\ alignments' # alignments
           /\ TraceNoStats(ret'.tokens) /\ ~ret'.null_result) =>
              get_matches(results', alignments'[Len(alignments')]).kind =
                  "NoStatsReturned"]_vars

-----------------------------------------------------------------------------
(* Profile creators *)

\* the SIMD family of an instruction set in the names of the backend's profile
\* creators; none for the creator that dispatches by itself
Family(iset) ==
    CASE iset = "None" -> ""
      [] iset \in {"SSE2", "SSE41"} -> "_sse_128"
      [] iset = "AVX2" -> "_avx_256"
      [] iset = "Neon" -> "_neon_128"
      [] iset = "AltiVec" -> "_altivec_128"

\* the backend's profile creator for a flag, an instruction set and a width
CreatorOf(stats, iset, width) ==
    "parasail_profile_create" \o (IF stats THEN "_stats" ELSE "") \o Family(iset)
        \o (IF width.some THEN "_" \o ToString(width.val) ELSE "_sat")

\* every Profile alive carries the use_stats flag its creator was looked up with
FlagKept ==
    \A b \in ProfileBindings :
        profile_values[b].some =>
            profile_values[b].use_stats =
                profiles[profile_values[b].inner].built.use_stats

-----------------------------------------------------------------------------
(* Gap penalties *)

\* the i32 y is not negative and is the number the u32 x is
SameNumber(x, y) == x.hi < 32768 /\ y >= 0 /\ y = x.hi * 65536 + x.lo

\* C30: the gap-open and gap-extend arguments that align and
\* align_with_profile call the backend with are not negative and are the
\* numbers set with gap_open_penalty and gap_extend_penalty
C30_PenaltiesPassedUnchanged ==
    [][((LetBuildAlignPlain \/ LetBuildAlignProfile) /\ ret'.backend # "none") =>
          /\ SameNumber(builder.gap_open_penalty, ret'.open)
          /\ SameNumber(builder.gap_extend_penalty, ret'.gap)]_vars

\* the same for the penalties up to i32::MAX
C30_UpToMax ==
    [][(/\ LetBuildAlignPlain \/ LetBuildAlignProfile
        /\ ret'.backend # "none"
        /\ builder.gap_open_penalty.hi < 32768
        /\ builder.gap_extend_penalty.hi < 32768) =>
          /\ SameNumber(builder.gap_open_penalty, ret'.open)
          /\ SameNumber(builder.gap_extend_penalty, ret'.gap)]_vars

-----------------------------------------------------------------------------
(* Identical sequences *)

\* C27: the default Aligner aligning a DNA sequence of length N >= 1 with
\* itself returns an Alignment whose score is N and whose end positions in
\* query and reference are N - 1
C27_IdenticalDna ==
    [][\A s \in Queries :
          LetAlignDna(s, s) =>
              /\ alignments' # alignments
              /\ LET self == alignments'[Len(alignments')]
                 IN  /\ getter(results', self, "parasail_result_get_score").kind = "Ok"
                     /\ results'[self.inner.addr].score = Len(s)
                     /\ get_end_query(results', self).kind = "Ok"
                     /\ results'[self.inner.addr].end_query = Len(s) - 1
                     /\ get_end_ref(results', self).kind = "Ok"
                     /\ results'[self.inner.addr].end_ref = Len(s) - 1]_vars

\* the same when the backend returns a result
C27_OnResults ==
    [][\A s \in Queries :
          (LetAlignDna(s, s) /\ ~ret'.null_result) =>
              /\ alignments' # alignments
              /\ LET self == alignments'[Len(alignments')]
                 IN  /\ getter(results', self, "parasail_result_get_score").kind = "Ok"
                     /\ results'[self.inner.addr].score = Len(s)
                     /\ get_end_query(results', self).kind = "Ok"
                     /\ results'[self.inner.addr].end_query = Len(s) - 1
                     /\ get_end_ref(results', self).kind = "Ok"
                     /\ results'[self.inner.addr].end_ref = Len(s) - 1]_vars

-----------------------------------------------------------------------------
(* Table and last row and column in src/lib.rs *)

\* the calls made on the builder of src/lib.rs since its last use_trace()
SinceTrace ==
    LET traces == {k \in 1 .. Len(lib_calls) : lib_calls[k] = "use_trace"}
        last == IF traces = {} THEN 0
                ELSE CHOOSE k \in traces : \A j \in traces : j <= k
    IN  {lib_calls[k] : k \in (last + 1) .. Len(lib_calls)}

\* C28: once use_table() and use_last_rowcol() have both been called on the
\* builder of src/lib.rs, in either order and with no use_trace() since the
\* first of the two, the table token of the identifier that
\* get_parasail_fn_name returns is "_rowcol"
C28_RowcolWinsInLib ==
    (/\ lib_ret.kind = "Ok"
     /\ {"use_table", "use_last_rowcol"} \subseteq SinceTrace) =>
        lib_ret.tokens[5] = "_rowcol"

\* the same when use_last_rowcol() is the later of the two calls
C28_RowcolLast ==
    (/\ lib_ret.kind = "Ok"
     /\ {"use_table", "use_last_rowcol"} \subseteq SinceTrace
     /\ \E k \in 1 .. Len(lib_calls) :
           /\ lib_calls[k] = "use_last_rowcol"
           /\ \A j \in (k + 1) .. Len(lib_calls) : lib_calls[j] # "use_table") =>
        lib_ret.tokens[5] = "_rowcol"

-----------------------------------------------------------------------------
(* The Matrix of a Profile *)

\* the table the profile handle h was made from is allocated and holds the
\* cells it held then
AsBuilt(h) ==
    LET table == deref(mem, profiles[h].built.ptr)
    IN  /\ table.state \in {"live", "static"}
        /\ table.cells = profiles[h].built.cells

\* C29: whenever an Aligner is in align_with_profile, the matrix table that
\* the handle of its Profile was built from is still allocated and holds the
\* values it held when the Profile was built
C29_ProfileMatrixKept ==
    \A a \in BagToSet(owner_aligners) :
        (a.pc = "in_call" /\ profile_arcs[a.profile].value.some) =>
            AsBuilt(profile_arcs[a.profile].value.inner)

\* the same for the Profiles built from a Matrix::from, whose table is static
C29_OnBuiltin ==
    \A a \in BagToSet(owner_aligners) :
        (/\ a.pc = "in_call" /\ profile_arcs[a.profile].value.some
         /\ profiles[profile_arcs[a.profile].value.inner].built.ptr = StaticPtr) =>
            AsBuilt(profile_arcs[a.profile].value.inner)

====
